---- MODULE Spec2Model ----
(***************************************************************************)
(* State Lifecycle Manager of simple-microvm-infra: named ZFS-backed       *)
(* states, their snapshots, and the registry that maps the fixed VM slots  *)
(* to states.  Two implementations of the manager live in the repository:  *)
(*   ZFSStateProvider  (vm-state-cpp/src/providers/zfs_state_provider.cpp) *)
(*   LocalZfsBackend   (vm-state/src/vm_state.cpp)                         *)
(* A behaviour runs one of them (variable impl) against a ZFS namespace,   *)
(* the registry file and the slots' data.img directory entries.            *)
(*                                                                         *)
(* Strings that the code splits or joins on '/' are sequences of their     *)
(* '/'-separated components: the state name "dev/x" is <<"dev","x">> and   *)
(* the dataset "microvms/storage/states/dev" is                            *)
(* <<"microvms","storage","states","dev">>.  A snapshot's short name is    *)
(* also a sequence: <<"before">>, or <<"clone-for-">> \o dest for the       *)
(* name "clone-for-" + dest that clone_state builds.                       *)
(***************************************************************************)
EXTENDS Naturals, Sequences, FiniteSets, TLC

VARIABLES
  impl,         \* which implementation this run uses
  zfs_handle_,  \* libzfs_init() returned a handle
  datasets,     \* ZFS namespace: filesystem path -> [snaps, origin]
  registry,     \* assignments file: [exists, map]
  slotData,     \* slot -> directory entry at <microvms_dir>/<slot>/data.img
  backup,       \* slot -> directory entry at <microvms_dir>/<slot>/data.img.backup
  last,         \* what the walkthrough's last call reported
  nops,         \* number of calls made so far
  codec,        \* the registry file written and read back (SpecCodec)
  scen,         \* position in the dev/slot1 walk-through (SpecScenario)
  conc          \* two invocations at once and the registry's directory
                \* (SpecConcurrent)

vars ==
  <<impl, zfs_handle_, datasets, registry, slotData, backup, last, nops,
    codec, scen, conc>>

(***************************************************************************)
(* Bounds of the model.                                                    *)
(***************************************************************************)
MaxOps == 3          \* calls per behaviour
MaxStrLen == 2       \* length of the state names the registry codec stores
NumProcs == 2        \* invocations running at once

(***************************************************************************)
(* Configuration (constructor defaults).                                   *)
(***************************************************************************)
pool_ == "microvms"
base_dataset_ == <<"storage", "states">>
slots_ == <<"slot1", "slot2", "slot3", "slot4", "slot5">>

ZFSStateProvider == "ZFSStateProvider"
LocalZfsBackend == "LocalZfsBackend"

\* Inputs the calls are exercised with.
StateNames == {<<"dev">>, <<"slot1">>, <<"dev", "x">>}
UserSnapNames == {<<"before">>}
SlotArgs == {"slot1", "slot2", "slot9"}

Range(s) == {s[i] : i \in DOMAIN s}

\* A parser of slot names that falls back to slot1 instead of refusing.
slot_from_string_lenient(s) ==
  IF s = "slot1" \/ s = "slot2" \/ s = "slot3" \/ s = "slot4" \/ s = "slot5"
  THEN <<s>> ELSE <<"slot1">>

\* Vm_state.cpp slot_from_string: the enum value is kept as the slot's name.
slot_from_string(s) ==
  IF s = "slot1" \/ s = "slot2" \/ s = "slot3" \/ s = "slot4" \/ s = "slot5"
  THEN <<s>> ELSE <<>>

all_slots == slots_

\* A slot name used as a state name (the default assignment).
AsStateName(slot) == <<slot>>

get_dataset_path(state_name) == <<pool_>> \o base_dataset_ \o state_name

base_path == <<pool_>> \o base_dataset_

Parent(path) == SubSeq(path, 1, Len(path) - 1)

(***************************************************************************)
(* libzfs, as far as the namespace goes.  Each call takes the namespace ds *)
(* and returns [ok, ds].  A call fails when the namespace does not allow   *)
(* it, and also when the environment makes it fail (envFail).              *)
(***************************************************************************)
NoOrigin == <<>>

zfs_open_filesystem(ds, path) == path \in DOMAIN ds

zfs_open_snapshot(ds, path, snap) ==
  path \in DOMAIN ds /\ snap \in Range(ds[path].snaps)

\* A snapshot name must not contain '/'.
SlashFree(snap) ==
  Len(snap) = 1 \/ (Len(snap) = 2 /\ snap[1] = "clone-for-")

\* A create that reports success for a filesystem that is already there.
zfs_create_existing_ok(ds, path, envFail) ==
  IF envFail \/ Parent(path) \notin DOMAIN ds
  THEN [ok |-> FALSE, ds |-> ds]
  ELSE [ok |-> TRUE,
        ds |-> [p \in DOMAIN ds \cup {path} |->
                  IF p \in DOMAIN ds THEN ds[p]
                  ELSE [snaps |-> <<>>, origin |-> NoOrigin]]]

zfs_create(ds, path, envFail) ==
  IF envFail \/ path \in DOMAIN ds \/ Parent(path) \notin DOMAIN ds
  THEN [ok |-> FALSE, ds |-> ds]
  ELSE [ok |-> TRUE,
        ds |-> [p \in DOMAIN ds \cup {path} |->
                  IF p = path THEN [snaps |-> <<>>, origin |-> NoOrigin]
                  ELSE ds[p]]]

zfs_snapshot(ds, path, snap, envFail) ==
  IF envFail \/ path \notin DOMAIN ds \/ ~SlashFree(snap)
     \/ snap \in Range(ds[path].snaps)
  THEN [ok |-> FALSE, ds |-> ds]
  ELSE [ok |-> TRUE,
        ds |-> [ds EXCEPT ![path].snaps = Append(@, snap)]]

\* A clone that is a filesystem of its own from the start.
clone_independent(ds, srcPath, snap, dstPath, envFail) ==
  IF envFail \/ ~zfs_open_snapshot(ds, srcPath, snap)
     \/ dstPath \in DOMAIN ds \/ Parent(dstPath) \notin DOMAIN ds
  THEN [ok |-> FALSE, ds |-> ds]
  ELSE [ok |-> TRUE,
        ds |-> [p \in DOMAIN ds \cup {dstPath} |->
                  IF p = dstPath
                  THEN [snaps |-> <<>>, origin |-> NoOrigin]
                  ELSE ds[p]]]

zfs_clone(ds, srcPath, snap, dstPath, envFail) ==
  IF envFail \/ ~zfs_open_snapshot(ds, srcPath, snap)
     \/ dstPath \in DOMAIN ds \/ Parent(dstPath) \notin DOMAIN ds
  THEN [ok |-> FALSE, ds |-> ds]
  ELSE [ok |-> TRUE,
        ds |-> [p \in DOMAIN ds \cup {dstPath} |->
                  IF p = dstPath
                  THEN [snaps |-> <<>>, origin |-> <<srcPath, snap>>]
                  ELSE ds[p]]]

IndexOf(seq, x) == CHOOSE i \in DOMAIN seq : seq[i] = x

\* A promotion that cuts the clone loose and leaves every snapshot where it
\* was.
promote_in_place(ds, path, envFail) ==
  IF envFail \/ path \notin DOMAIN ds THEN [ok |-> FALSE, ds |-> ds]
  ELSE IF ds[path].origin = NoOrigin THEN [ok |-> FALSE, ds |-> ds]
  ELSE [ok |-> TRUE, ds |-> [ds EXCEPT ![path].origin = NoOrigin]]

\* zfs_promote: the origin snapshot and every earlier snapshot of the origin
\* filesystem move to the clone; the origin filesystem becomes a clone of the
\* moved snapshot; clones of moved snapshots follow them.
zfs_promote(ds, path, envFail) ==
  IF envFail \/ path \notin DOMAIN ds THEN [ok |-> FALSE, ds |-> ds]
  ELSE IF ds[path].origin = NoOrigin THEN [ok |-> FALSE, ds |-> ds]
  ELSE
    LET src == ds[path].origin[1]
        snap == ds[path].origin[2]
        k == IndexOf(ds[src].snaps, snap)
        moved == SubSeq(ds[src].snaps, 1, k)
        kept == SubSeq(ds[src].snaps, k + 1, Len(ds[src].snaps))
    IN IF Range(moved) \cap Range(ds[path].snaps) # {}
       THEN [ok |-> FALSE, ds |-> ds]
       ELSE [ok |-> TRUE,
             ds |-> [p \in DOMAIN ds |->
                  IF p = path
                  THEN [snaps |-> moved \o ds[path].snaps,
                        origin |-> ds[src].origin]
                  ELSE IF p = src
                  THEN [snaps |-> kept, origin |-> <<path, snap>>]
                  ELSE IF ds[p].origin # NoOrigin
                          /\ ds[p].origin[1] = src
                          /\ ds[p].origin[2] \in Range(moved)
                  THEN [ds[p] EXCEPT !.origin = <<path, ds[p].origin[2]>>]
                  ELSE ds[p]]]

HasClones(ds, path, snap) ==
  \E p \in DOMAIN ds : ds[p].origin = <<path, snap>>

RemoveFromSeq(seq, x) == SelectSeq(seq, LAMBDA y : y # x)

\* zfs_destroy on a snapshot handle: refused while a clone depends on it.
zfs_destroy_snapshot(ds, path, snap, envFail) ==
  IF envFail \/ ~zfs_open_snapshot(ds, path, snap) \/ HasClones(ds, path, snap)
  THEN [ok |-> FALSE, ds |-> ds]
  ELSE [ok |-> TRUE,
        ds |-> [ds EXCEPT ![path].snaps = RemoveFromSeq(@, snap)]]

HasChildren(ds, path) == \E p \in DOMAIN ds : Len(p) > 0 /\ Parent(p) = path

\* zfs_destroy on a filesystem handle.  Its second argument is libzfs's
\* "defer" flag, which has no meaning for a filesystem: the call destroys
\* this one dataset and is refused while the dataset has snapshots or
\* children.  Builds of libzfs that reject defer on a filesystem are the
\* envFail outcome.
zfs_destroy_filesystem(ds, path, defer, envFail) ==
  IF envFail \/ path \notin DOMAIN ds \/ ds[path].snaps # <<>>
     \/ HasChildren(ds, path)
  THEN [ok |-> FALSE, ds |-> ds]
  ELSE [ok |-> TRUE, ds |-> [p \in DOMAIN ds \ {path} |-> ds[p]]]

\* zfs_iter_filesystems: the direct children of a filesystem.
zfs_iter_filesystems(ds, path) ==
  {p \in DOMAIN ds : Len(p) = Len(path) + 1 /\ Parent(p) = path}

\* zfs_iter_snapshots: the snapshots of one filesystem, oldest first.
zfs_iter_snapshots(ds, path) == ds[path].snaps

(***************************************************************************)
(* The world a call acts on: w = [ds, reg, slotData, backup].  A call      *)
(* returns [ok, err, w]: what it reported and the world it left.           *)
(***************************************************************************)
Ok(w) == [ok |-> TRUE, err |-> "None", w |-> w]

Fail(w, err) == [ok |-> FALSE, err |-> err, w |-> w]

\* Directory entries.  A regular file carries a number standing for its
\* content, so that two files can be told apart.
NoEntry == [kind |-> "none", target |-> <<>>, content |-> 0]

RegularFile(content) == [kind |-> "file", target |-> <<>>, content |-> content]

Symlink(target) == [kind |-> "symlink", target |-> target, content |-> 0]

EmptyMap == <<>>

\* A write that keeps the new entry alone.
map_only(m, k, v) == [x \in {k} |-> v]

MapPut(m, k, v) == [x \in DOMAIN m \cup {k} |-> IF x = k THEN v ELSE m[x]]

(***************************************************************************)
(* ZFSStateProvider (vm-state-cpp).                                        *)
(***************************************************************************)
\* read_json_file: no file gives nullopt, which load_assignments turns into
\* the empty map.
ZFS_load_assignments(reg) == IF reg.exists THEN reg.map ELSE EmptyMap

\* write_json_file: temp file, then rename; a failure leaves the file as it was.
ZFS_save_assignments(reg, assignments, envFail) ==
  IF envFail THEN [ok |-> FALSE, reg |-> reg]
  ELSE [ok |-> TRUE, reg |-> [exists |-> TRUE, map |-> assignments]]

ZFS_state_exists(w, name) ==
  zfs_handle_ /\ zfs_open_filesystem(w.ds, get_dataset_path(name))

ZFS_get_state_info(w, name) ==
  IF ~zfs_handle_ \/ ~zfs_open_filesystem(w.ds, get_dataset_path(name))
  THEN {}
  ELSE {[name |-> name, dataset |-> get_dataset_path(name)]}

\* dataset_iter_callback: the entry made for one dataset handed to it (none
\* for the base itself and for a name that still contains '/').
ZFS_dataset_iter_callback(name_str, collector_base_path) ==
  IF name_str = collector_base_path THEN {}
  ELSE LET state_name ==
             SubSeq(name_str, Len(collector_base_path) + 1, Len(name_str))
       IN IF Len(state_name) = 1
          THEN {[name |-> state_name, dataset |-> name_str]}
          ELSE {}

ZFS_list_states(w) ==
  IF ~zfs_handle_ \/ ~zfs_open_filesystem(w.ds, base_path) THEN {}
  ELSE UNION {ZFS_dataset_iter_callback(p, base_path) :
                p \in zfs_iter_filesystems(w.ds, base_path)}

\* snapshot_iter_callback, for every snapshot of one filesystem.
ZFS_snapshot_iter(ds, path) ==
  {[name |-> zfs_iter_snapshots(ds, path)[i],
    state_name |-> IF Len(path) > Len(base_path)
                   THEN SubSeq(path, Len(base_path) + 1, Len(path))
                   ELSE <<>>,
    full_name |-> <<path, zfs_iter_snapshots(ds, path)[i]>>] :
     i \in DOMAIN zfs_iter_snapshots(ds, path)}

\* list_snapshots(state_name); the empty name lists the base's snapshots and
\* those of every child filesystem.  libzfs fixes no order among the
\* children, so the listing is kept as a set.
ZFS_list_snapshots(w, state_name) ==
  LET target == IF state_name = <<>> THEN base_path
                ELSE get_dataset_path(state_name)
  IN IF ~zfs_handle_ \/ ~zfs_open_filesystem(w.ds, target) THEN {}
     ELSE IF state_name # <<>> THEN ZFS_snapshot_iter(w.ds, target)
     ELSE ZFS_snapshot_iter(w.ds, target)
          \cup UNION {ZFS_snapshot_iter(w.ds, p) :
                        p \in zfs_iter_filesystems(w.ds, target)}

\* find_snapshot: the listed snapshots with that short name; the code returns
\* the first of them in listing order.
ZFS_find_snapshot(w, snapshot_name) ==
  {s \in ZFS_list_snapshots(w, <<>>) : s.name = snapshot_name}

\* A lookup without the default-to-own-name rule.
get_slot_state_no_default(reg, slot_name) ==
  LET assignments == ZFS_load_assignments(reg)
  IN IF slot_name \in DOMAIN assignments THEN assignments[slot_name]
     ELSE <<>>

ZFS_get_slot_state(reg, slot_name) ==
  LET assignments == ZFS_load_assignments(reg)
  IN IF slot_name \in DOMAIN assignments THEN assignments[slot_name]
     ELSE AsStateName(slot_name)

ZFS_list_assignments(reg) ==
  LET assignments == ZFS_load_assignments(reg)
  IN [i \in DOMAIN slots_ |->
        [slot_name |-> slots_[i],
         state_name |-> IF slots_[i] \in DOMAIN assignments
                        THEN assignments[slots_[i]]
                        ELSE AsStateName(slots_[i])]]

NoSlot == <<>>

RECURSIVE ZFS_in_use_scan(_, _, _)
ZFS_in_use_scan(assignments, i, state_name) ==
  IF i > Len(assignments) THEN NoSlot
  ELSE IF assignments[i].state_name = state_name
       THEN <<assignments[i].slot_name>>
       ELSE ZFS_in_use_scan(assignments, i + 1, state_name)

\* A scan of the explicit registry entries only.
is_state_in_use_explicit_only(reg, state_name) ==
  LET assignments == ZFS_load_assignments(reg)
      users == {i \in DOMAIN slots_ :
                  slots_[i] \in DOMAIN assignments
                  /\ assignments[slots_[i]] = state_name}
  IN IF users = {} THEN NoSlot
     ELSE <<slots_[CHOOSE i \in users : \A j \in users : i <= j]>>

\* is_state_in_use: <<slot>> for the first assignment bound to the state, or
\* NoSlot.
ZFS_is_state_in_use(reg, state_name) ==
  ZFS_in_use_scan(ZFS_list_assignments(reg), 1, state_name)

\* chown and chmod of the mount directory: the environment decides.
ZFS_set_state_permissions(envFail) == ~envFail

\* A create_state without the check for an existing state.
create_state_unchecked(w, name, fault) ==
  IF ~zfs_handle_ THEN Fail(w, "BackendFailure")
  ELSE LET c == zfs_create(w.ds, get_dataset_path(name), fault = "zfs_create")
       IN IF ~c.ok THEN Fail(w, "BackendFailure")
          ELSE Ok([w EXCEPT !.ds = c.ds])

ZFS_create_state(w, name, fault) ==
  IF ~zfs_handle_ THEN Fail(w, "BackendFailure")
  ELSE IF ZFS_state_exists(w, name) THEN Fail(w, "AlreadyExists")
  ELSE LET c == zfs_create(w.ds, get_dataset_path(name), fault = "zfs_create")
       IN IF ~c.ok THEN Fail(w, "BackendFailure")
          ELSE IF ~ZFS_set_state_permissions(fault = "chown")
               THEN Fail([w EXCEPT !.ds = c.ds], "PermissionDenied")
               ELSE Ok([w EXCEPT !.ds = c.ds])

\* A delete_state that does not ask whether the state is in use.
delete_state_no_in_use_check(w, name, force, fault) ==
  IF ~zfs_handle_ THEN Fail(w, "BackendFailure")
  ELSE IF ~ZFS_state_exists(w, name) THEN Fail(w, "NotFound")
  ELSE LET d == zfs_destroy_filesystem(w.ds, get_dataset_path(name), TRUE,
                                       fault = "zfs_destroy")
       IN IF ~d.ok THEN Fail(w, "BackendFailure")
          ELSE Ok([w EXCEPT !.ds = d.ds])

ZFS_delete_state(w, name, force, fault) ==
  IF ~zfs_handle_ THEN Fail(w, "BackendFailure")
  ELSE IF ~ZFS_state_exists(w, name) THEN Fail(w, "NotFound")
  ELSE IF ~force /\ ZFS_is_state_in_use(w.reg, name) # NoSlot
       THEN Fail(w, "InUse")
  ELSE LET d == zfs_destroy_filesystem(w.ds, get_dataset_path(name), TRUE,
                                       fault = "zfs_destroy")
       IN IF ~d.ok THEN Fail(w, "BackendFailure")
          ELSE Ok([w EXCEPT !.ds = d.ds])

\* A tail that destroys the clone again when the promotion fails.
clone_promote_rollback(w, ds0, srcPath, snap, dest, fault) ==
  LET c == zfs_clone(ds0, srcPath, snap, get_dataset_path(dest),
                     fault = "zfs_clone")
  IN IF ~c.ok THEN Fail([w EXCEPT !.ds = ds0], "BackendFailure")
     ELSE LET p == zfs_promote(c.ds, get_dataset_path(dest),
                               fault = "zfs_promote")
          IN IF ~p.ok THEN Fail([w EXCEPT !.ds = ds0], "BackendFailure")
             ELSE IF ~ZFS_set_state_permissions(fault = "chown")
                  THEN Fail([w EXCEPT !.ds = p.ds], "PermissionDenied")
                  ELSE Ok([w EXCEPT !.ds = p.ds])

\* The tail shared by clone_state and restore_snapshot: clone, promote,
\* permissions.
ZFS_clone_promote(w, ds0, srcPath, snap, dest, fault) ==
  LET c == zfs_clone(ds0, srcPath, snap, get_dataset_path(dest),
                     fault = "zfs_clone")
  IN IF ~c.ok THEN Fail([w EXCEPT !.ds = ds0], "BackendFailure")
     ELSE LET p == zfs_promote(c.ds, get_dataset_path(dest),
                               fault = "zfs_promote")
          IN IF ~p.ok THEN Fail([w EXCEPT !.ds = c.ds], "BackendFailure")
             ELSE IF ~ZFS_set_state_permissions(fault = "chown")
                  THEN Fail([w EXCEPT !.ds = p.ds], "PermissionDenied")
                  ELSE Ok([w EXCEPT !.ds = p.ds])

CloneSnapName(dest) == <<"clone-for-">> \o dest

\* A clone_state that looks for the destination after taking the snapshot.
clone_state_late_check(w, source, dest, fault) ==
  IF ~zfs_handle_ THEN Fail(w, "BackendFailure")
  ELSE IF ~ZFS_state_exists(w, source) THEN Fail(w, "NotFound")
  ELSE LET s == zfs_snapshot(w.ds, get_dataset_path(source),
                             CloneSnapName(dest), fault = "zfs_snapshot")
       IN IF ~s.ok THEN Fail(w, "BackendFailure")
          ELSE IF ZFS_state_exists(w, dest)
          THEN Fail([w EXCEPT !.ds = s.ds], "AlreadyExists")
          ELSE ZFS_clone_promote(w, s.ds, get_dataset_path(source),
                                 CloneSnapName(dest), dest, fault)

ZFS_clone_state(w, source, dest, fault) ==
  IF ~zfs_handle_ THEN Fail(w, "BackendFailure")
  ELSE IF ~ZFS_state_exists(w, source) THEN Fail(w, "NotFound")
  ELSE IF ZFS_state_exists(w, dest) THEN Fail(w, "AlreadyExists")
  ELSE LET s == zfs_snapshot(w.ds, get_dataset_path(source),
                             CloneSnapName(dest), fault = "zfs_snapshot")
       IN IF ~s.ok THEN Fail(w, "BackendFailure")
          ELSE ZFS_clone_promote(w, s.ds, get_dataset_path(source),
                                 CloneSnapName(dest), dest, fault)

\* A create_snapshot that does not look for the state first.
create_snapshot_unchecked(w, state_name, snapshot_name, fault) ==
  IF ~zfs_handle_ THEN Fail(w, "BackendFailure")
  ELSE LET s == zfs_snapshot(w.ds, get_dataset_path(state_name),
                             snapshot_name, fault = "zfs_snapshot")
       IN IF ~s.ok THEN Fail(w, "BackendFailure")
          ELSE Ok([w EXCEPT !.ds = s.ds])

ZFS_create_snapshot(w, state_name, snapshot_name, fault) ==
  IF ~zfs_handle_ THEN Fail(w, "BackendFailure")
  ELSE IF ~ZFS_state_exists(w, state_name) THEN Fail(w, "NotFound")
  ELSE LET s == zfs_snapshot(w.ds, get_dataset_path(state_name),
                             snapshot_name, fault = "zfs_snapshot")
       IN IF ~s.ok THEN Fail(w, "BackendFailure")
          ELSE Ok([w EXCEPT !.ds = s.ds])

ZFS_delete_snapshot(w, state_name, snapshot_name, fault) ==
  IF ~zfs_handle_ THEN Fail(w, "BackendFailure")
  ELSE IF ~zfs_open_snapshot(w.ds, get_dataset_path(state_name),
                             snapshot_name)
       THEN Fail(w, "NotFound")
  ELSE LET d == zfs_destroy_snapshot(w.ds, get_dataset_path(state_name),
                                     snapshot_name, fault = "zfs_destroy")
       IN IF ~d.ok THEN Fail(w, "BackendFailure")
          ELSE Ok([w EXCEPT !.ds = d.ds])

\* A restore_snapshot that does not look for the new state first.
restore_snapshot_unchecked(w, found, new_state_name, fault) ==
  IF ~zfs_handle_ THEN Fail(w, "BackendFailure")
  ELSE IF found = {} THEN Fail(w, "NotFound")
  ELSE LET snap == CHOOSE s \in found : TRUE
       IN ZFS_clone_promote(w, w.ds, snap.full_name[1], snap.full_name[2],
                            new_state_name, fault)

\* restore_snapshot, given the snapshot find_snapshot returned (found is the
\* empty set or holds that one record).
ZFS_restore_snapshot(w, found, new_state_name, fault) ==
  IF ~zfs_handle_ THEN Fail(w, "BackendFailure")
  ELSE IF found = {} THEN Fail(w, "NotFound")
  ELSE IF ZFS_state_exists(w, new_state_name) THEN Fail(w, "AlreadyExists")
  ELSE LET snap == CHOOSE s \in found : TRUE
       IN ZFS_clone_promote(w, w.ds, snap.full_name[1], snap.full_name[2],
                            new_state_name, fault)

\* create_state_symlink: rebinding of <microvms_dir>/<slot>/data.img.  The
\* chown of the slot directory at its end is not looked at.
ZFS_create_state_symlink(w, slot_name, state_name, fault) ==
  IF fault = "mkdir" THEN Fail(w, "BackendFailure")
  ELSE IF fault = "unlink" /\ w.slotData[slot_name].kind # "none"
  THEN Fail(w, "BackendFailure")
  ELSE
    LET cur == w.slotData[slot_name]
        w1 == IF cur.kind = "symlink"
              THEN [w EXCEPT !.slotData[slot_name] = NoEntry]
              ELSE IF cur.kind = "file"
              THEN [w EXCEPT !.slotData[slot_name] = NoEntry,
                             !.backup[slot_name] = cur]
              ELSE w
    IN IF fault = "symlink" THEN Fail(w1, "BackendFailure")
       ELSE Ok([w1 EXCEPT !.slotData[slot_name] = Symlink(state_name)])

\* An assign_state that returns false without a message when the registry
\* cannot be saved.
assign_state_silent_save(w, slot_name, state_name, fault) ==
  IF slot_name \notin Range(slots_) THEN Fail(w, "InvalidSlot")
  ELSE
    LET c == IF ~ZFS_state_exists(w, state_name)
             THEN ZFS_create_state(w, state_name, fault)
             ELSE Ok(w)
    IN IF ~c.ok THEN c
       ELSE LET assignments ==
                  MapPut(ZFS_load_assignments(c.w.reg), slot_name, state_name)
                sv == ZFS_save_assignments(c.w.reg, assignments,
                                           fault = "save")
            IN IF ~sv.ok THEN [ok |-> FALSE, err |-> "None", w |-> c.w]
               ELSE ZFS_create_state_symlink([c.w EXCEPT !.reg = sv.reg],
                                             slot_name, state_name, fault)

ZFS_assign_state(w, slot_name, state_name, fault) ==
  IF slot_name \notin Range(slots_) THEN Fail(w, "InvalidSlot")
  ELSE
    LET c == IF ~ZFS_state_exists(w, state_name)
             THEN ZFS_create_state(w, state_name, fault)
             ELSE Ok(w)
    IN IF ~c.ok THEN c
       ELSE LET assignments ==
                  MapPut(ZFS_load_assignments(c.w.reg), slot_name, state_name)
                sv == ZFS_save_assignments(c.w.reg, assignments,
                                           fault = "save")
            IN IF ~sv.ok THEN Fail(c.w, "BackendFailure")
               ELSE ZFS_create_state_symlink([c.w EXCEPT !.reg = sv.reg],
                                             slot_name, state_name, fault)

\* get_last_error after a call that reported r: last_error_ is assigned on
\* the paths that return false and on no other; before is what an earlier
\* call left in it.
get_last_error(before, r) == IF r.err = "None" THEN before ELSE r.err

(***************************************************************************)
(* LocalZfsBackend (vm-state).  A thrown exception is a failed call with   *)
(* the world as the call left it.                                          *)
(***************************************************************************)
\* load_assignments: no file gives the empty map.
Local_load_assignments(reg) == IF reg.exists THEN reg.map ELSE EmptyMap

\* save_assignments opens the file with std::ofstream and writes; the stream
\* is never checked, so a file that cannot be opened stays as it was and
\* nothing is reported.
Local_save_assignments(reg, assignments, envFail) ==
  IF envFail THEN reg ELSE [exists |-> TRUE, map |-> assignments]

Local_state_exists(w, state) ==
  zfs_open_filesystem(w.ds, get_dataset_path(state))

\* The name a listing callback derives: the part after the last '/'.
LastComponent(path) == <<path[Len(path)]>>

\* A listing that descends into the children's children.
list_every_descendant(w) ==
  {[name |-> LastComponent(p), dataset |-> p] :
     p \in {q \in DOMAIN w.ds : Len(q) > Len(base_path)}}

Local_list_states(w) ==
  IF ~zfs_open_filesystem(w.ds, base_path) THEN {}
  ELSE {[name |-> LastComponent(p), dataset |-> p] :
          p \in zfs_iter_filesystems(w.ds, base_path)}

\* list_snapshots: for every child filesystem of the base, its snapshots.
Local_list_snapshots(w) ==
  IF ~zfs_open_filesystem(w.ds, base_path) THEN {}
  ELSE UNION {
         {[name |-> zfs_iter_snapshots(w.ds, p)[i],
           state_name |-> LastComponent(p),
           full_name |-> <<p, zfs_iter_snapshots(w.ds, p)[i]>>] :
            i \in DOMAIN zfs_iter_snapshots(w.ds, p)} :
         p \in zfs_iter_filesystems(w.ds, base_path)}

Local_get_slot_state(reg, slot) ==
  LET assignments == Local_load_assignments(reg)
  IN IF slot \in DOMAIN assignments THEN assignments[slot]
     ELSE AsStateName(slot)

\* create_state; set_ownership ignores the results of chown and chmod.
Local_create_state(w, state, fault) ==
  IF Local_state_exists(w, state) THEN Fail(w, "AlreadyExists")
  ELSE LET c == zfs_create(w.ds, get_dataset_path(state), fault = "zfs_create")
       IN IF ~c.ok THEN Fail(w, "BackendFailure")
          ELSE Ok([w EXCEPT !.ds = c.ds])

\* The in-use loop of delete_state: <<slot>> of the first slot assigned to
\* the state, or NoSlot.
RECURSIVE Local_in_use_scan(_, _, _)
Local_in_use_scan(assignments, i, state) ==
  IF i > Len(all_slots) THEN NoSlot
  ELSE LET slot_name == all_slots[i]
           assigned == IF slot_name \in DOMAIN assignments
                       THEN assignments[slot_name]
                       ELSE AsStateName(slot_name)
       IN IF assigned = state THEN <<slot_name>>
          ELSE Local_in_use_scan(assignments, i + 1, state)

\* A snapshot loop that ends at the first snapshot it cannot destroy.
RECURSIVE destroy_snapshots_until_failure(_, _, _, _)
destroy_snapshots_until_failure(ds, path, snaps, envFail) ==
  IF snaps = <<>> THEN ds
  ELSE IF ~zfs_destroy_snapshot(ds, path, Head(snaps), envFail).ok THEN ds
  ELSE destroy_snapshots_until_failure(
         zfs_destroy_snapshot(ds, path, Head(snaps), envFail).ds,
         path, Tail(snaps), envFail)

\* The snapshot loop of delete_state: each listed snapshot of the state is
\* destroyed; the result of zfs_destroy is not looked at.
RECURSIVE Local_destroy_snapshots(_, _, _, _)
Local_destroy_snapshots(ds, path, snaps, envFail) ==
  IF snaps = <<>> THEN ds
  ELSE Local_destroy_snapshots(
         zfs_destroy_snapshot(ds, path, Head(snaps), envFail).ds,
         path, Tail(snaps), envFail)

\* A delete_state that looks at the result of no destroy.
Local_delete_state_unchecked(w, state, fault) ==
  IF ~Local_state_exists(w, state) THEN Fail(w, "NotFound")
  ELSE IF Local_in_use_scan(Local_load_assignments(w.reg), 1, state) # NoSlot
       THEN Fail(w, "InUse")
  ELSE Ok(w)

Local_delete_state(w, state, fault) ==
  IF ~Local_state_exists(w, state) THEN Fail(w, "NotFound")
  ELSE IF Local_in_use_scan(Local_load_assignments(w.reg), 1, state) # NoSlot
       THEN Fail(w, "InUse")
  ELSE
    LET path == get_dataset_path(state)
        listed == {s \in Local_list_snapshots(w) : s.state_name = state}
        owners == {s.full_name[1] : s \in listed}
        ds1 == IF owners = {} THEN w.ds
               ELSE LET o == CHOOSE q \in owners : TRUE
                    IN Local_destroy_snapshots(w.ds, o,
                         zfs_iter_snapshots(w.ds, o),
                         fault = "zfs_destroy_snapshot")
        d == zfs_destroy_filesystem(ds1, path, FALSE, fault = "zfs_destroy")
    IN IF ~d.ok THEN Fail([w EXCEPT !.ds = ds1], "BackendFailure")
       ELSE Ok([w EXCEPT !.ds = d.ds])

\* clone and restore share their tail: clone, promote (result ignored),
\* set_ownership.
Local_clone_promote(w, ds0, srcPath, snap, dest, fault) ==
  LET c == zfs_clone(ds0, srcPath, snap, get_dataset_path(dest),
                     fault = "zfs_clone")
  IN IF ~c.ok THEN Fail([w EXCEPT !.ds = ds0], "BackendFailure")
     ELSE LET p == zfs_promote(c.ds, get_dataset_path(dest),
                               fault = "zfs_promote")
          IN Ok([w EXCEPT !.ds = p.ds])

Local_clone_state(w, source, dest, fault) ==
  IF ~Local_state_exists(w, source) THEN Fail(w, "NotFound")
  ELSE IF Local_state_exists(w, dest) THEN Fail(w, "AlreadyExists")
  ELSE LET s == zfs_snapshot(w.ds, get_dataset_path(source),
                             CloneSnapName(dest), fault = "zfs_snapshot")
       IN IF ~s.ok THEN Fail(w, "BackendFailure")
          ELSE Local_clone_promote(w, s.ds, get_dataset_path(source),
                                   CloneSnapName(dest), dest, fault)

\* snapshot(slot, name): the slot's assigned state is snapshotted.
Local_snapshot(w, slot, snapshot_name, fault) ==
  LET state == Local_get_slot_state(w.reg, slot)
  IN IF ~Local_state_exists(w, state) THEN Fail(w, "NotFound")
     ELSE LET s == zfs_snapshot(w.ds, get_dataset_path(state), snapshot_name,
                                fault = "zfs_snapshot")
          IN IF ~s.ok THEN Fail(w, "BackendFailure")
             ELSE Ok([w EXCEPT !.ds = s.ds])

\* restore_snapshot, given the first listed snapshot with the short name
\* (found is the empty set or holds that one record).
Local_restore_snapshot(w, found, new_state, fault) ==
  IF Local_state_exists(w, new_state) THEN Fail(w, "AlreadyExists")
  ELSE IF found = {} THEN Fail(w, "NotFound")
  ELSE LET snap == CHOOSE s \in found : TRUE
       IN Local_clone_promote(w, w.ds, snap.full_name[1], snap.full_name[2],
                              new_state, fault)

Local_assign(w, slot, state, fault) ==
  LET c == IF ~Local_state_exists(w, state)
           THEN Local_create_state(w, state, fault)
           ELSE Ok(w)
  IN IF ~c.ok THEN c
     ELSE
       LET assignments ==
             MapPut(Local_load_assignments(c.w.reg), slot, state)
           w1 == [c.w EXCEPT !.reg = Local_save_assignments(
                                       c.w.reg, assignments, fault = "save")]
           cur == w1.slotData[slot]
           w2 == IF cur.kind = "symlink"
                 THEN [w1 EXCEPT !.slotData[slot] = NoEntry]
                 ELSE IF cur.kind = "file"
                 THEN [w1 EXCEPT !.slotData[slot] = NoEntry,
                                 !.backup[slot] = cur]
                 ELSE w1
       IN IF fault = "mkdir" THEN Fail(w1, "BackendFailure")
          ELSE IF fault = "unlink" /\ cur.kind # "none"
          THEN Fail(w1, "BackendFailure")
          ELSE IF fault = "symlink" THEN Fail(w2, "BackendFailure")
          ELSE Ok([w2 EXCEPT !.slotData[slot] = Symlink(state)])

\* main.cpp cmd_assign: the slot string is parsed before the backend is
\* called.
Local_cmd_assign(w, slot_str, state, fault) ==
  IF slot_from_string(slot_str) = <<>> THEN Fail(w, "InvalidSlot")
  ELSE Local_assign(w, slot_from_string(slot_str)[1], state, fault)

\* main.cpp cmd_snapshot.
Local_cmd_snapshot(w, slot_str, name, fault) ==
  IF slot_from_string(slot_str) = <<>> THEN Fail(w, "InvalidSlot")
  ELSE Local_snapshot(w, slot_from_string(slot_str)[1], name, fault)

(***************************************************************************)
(* The calls as steps of a behaviour.                                      *)
(***************************************************************************)
(***************************************************************************)
(* Listings in order.  zfs_iter_filesystems hands the children of the base *)
(* to the callback in an order libzfs does not specify; order is one such  *)
(* enumeration.  Within a filesystem the snapshots come oldest first.      *)
(***************************************************************************)
ListingOrders(ds) ==
  LET children == zfs_iter_filesystems(ds, base_path)
  IN {o \in [1..Cardinality(children) -> children] :
        \A i, j \in DOMAIN o : o[i] = o[j] => i = j}

RECURSIVE Flatten(_)
Flatten(seqs) ==
  IF seqs = <<>> THEN <<>> ELSE Head(seqs) \o Flatten(Tail(seqs))

\* snapshot_iter_callback over one filesystem, in iteration order.
ZFS_snapshot_iter_ordered(ds, path) ==
  [i \in DOMAIN zfs_iter_snapshots(ds, path) |->
     [name |-> zfs_iter_snapshots(ds, path)[i],
      state_name |-> IF Len(path) > Len(base_path)
                     THEN SubSeq(path, Len(base_path) + 1, Len(path))
                     ELSE <<>>,
      full_name |-> <<path, zfs_iter_snapshots(ds, path)[i]>>]]

\* list_snapshots(): the base's snapshots, then those of each child.
ZFS_list_snapshots_ordered(w, order) ==
  IF ~zfs_handle_ \/ ~zfs_open_filesystem(w.ds, base_path) THEN <<>>
  ELSE ZFS_snapshot_iter_ordered(w.ds, base_path)
       \o Flatten([i \in DOMAIN order |->
                     ZFS_snapshot_iter_ordered(w.ds, order[i])])

Local_list_snapshots_ordered(w, order) ==
  IF ~zfs_open_filesystem(w.ds, base_path) THEN <<>>
  ELSE Flatten([i \in DOMAIN order |->
                  [k \in DOMAIN zfs_iter_snapshots(w.ds, order[i]) |->
                     [name |-> zfs_iter_snapshots(w.ds, order[i])[k],
                      state_name |-> LastComponent(order[i]),
                      full_name |-> <<order[i],
                                      zfs_iter_snapshots(w.ds, order[i])[k]>>]]])

\* A search that keeps the last listed snapshot with the short name.
last_match(snapshots, snapshot_name) ==
  LET idx == {i \in DOMAIN snapshots : snapshots[i].name = snapshot_name}
  IN IF idx = {} THEN {}
     ELSE {snapshots[CHOOSE i \in idx : \A j \in idx : i >= j]}

\* The search loop of find_snapshot and of LocalZfsBackend::restore_snapshot:
\* the first listed snapshot with the short name, or none.
first_match(snapshots, snapshot_name) ==
  LET idx == {i \in DOMAIN snapshots : snapshots[i].name = snapshot_name}
  IN IF idx = {} THEN {}
     ELSE {snapshots[CHOOSE i \in idx : \A j \in idx : i <= j]}

World ==
  [ds |-> datasets, reg |-> registry, slotData |-> slotData,
   backup |-> backup]

\* What each call returns, by implementation.
call_state_exists(w, name) ==
  IF impl = ZFSStateProvider THEN ZFS_state_exists(w, name)
  ELSE Local_state_exists(w, name)

call_list_states(w) ==
  IF impl = ZFSStateProvider THEN ZFS_list_states(w) ELSE Local_list_states(w)

call_get_slot_state(reg, slot) ==
  IF impl = ZFSStateProvider THEN ZFS_get_slot_state(reg, slot)
  ELSE Local_get_slot_state(reg, slot)

\* list_snapshots over every state.
call_list_snapshots(w) ==
  IF impl = ZFSStateProvider THEN ZFS_list_snapshots(w, <<>>)
  ELSE Local_list_snapshots(w)

\* find_snapshot, and the search loop at the head of
\* LocalZfsBackend::restore_snapshot: the listed snapshots with the short name.
call_find_snapshot(w, snapshot_name) ==
  IF impl = ZFSStateProvider THEN ZFS_find_snapshot(w, snapshot_name)
  ELSE {s \in Local_list_snapshots(w) : s.name = snapshot_name}

call_list_snapshots_ordered(w, order) ==
  IF impl = ZFSStateProvider THEN ZFS_list_snapshots_ordered(w, order)
  ELSE Local_list_snapshots_ordered(w, order)

call_create_state(w, name, fault) ==
  IF impl = ZFSStateProvider THEN ZFS_create_state(w, name, fault)
  ELSE Local_create_state(w, name, fault)

\* LocalZfsBackend::delete_state has no force parameter.
call_delete_state(w, name, force, fault) ==
  IF impl = ZFSStateProvider THEN ZFS_delete_state(w, name, force, fault)
  ELSE Local_delete_state(w, name, fault)

call_clone_state(w, source, dest, fault) ==
  IF impl = ZFSStateProvider THEN ZFS_clone_state(w, source, dest, fault)
  ELSE Local_clone_state(w, source, dest, fault)

call_restore_snapshot(w, found, new_state_name, fault) ==
  IF impl = ZFSStateProvider
  THEN ZFS_restore_snapshot(w, found, new_state_name, fault)
  ELSE Local_restore_snapshot(w, found, new_state_name, fault)

call_assign_state(w, slot_name, state_name, fault) ==
  IF impl = ZFSStateProvider
  THEN ZFS_assign_state(w, slot_name, state_name, fault)
  ELSE Local_cmd_assign(w, slot_name, state_name, fault)

\* The step of one call: the world it leaves.
Return(op, r) ==
  /\ nops < MaxOps
  /\ datasets' = r.w.ds
  /\ registry' = r.w.reg
  /\ slotData' = r.w.slotData
  /\ backup' = r.w.backup
  /\ nops' = nops + 1
  /\ UNCHANGED <<impl, zfs_handle_, last, codec, scen, conc>>

IsZFS == impl = ZFSStateProvider

create_state(name, fault) ==
  Return("create_state", call_create_state(World, name, fault))

delete_state(name, force, fault) ==
  /\ IsZFS \/ (~force /\ fault # "zfs_destroy_snapshot")
  /\ ~IsZFS \/ fault # "zfs_destroy_snapshot"
  /\ Return("delete_state", call_delete_state(World, name, force, fault))

clone_state(source, dest, fault) ==
  Return("clone_state", call_clone_state(World, source, dest, fault))

create_snapshot(state_name, snapshot_name, fault) ==
  /\ IsZFS
  /\ Return("create_snapshot",
            ZFS_create_snapshot(World, state_name, snapshot_name, fault))

delete_snapshot(state_name, snapshot_name, fault) ==
  /\ IsZFS
  /\ Return("delete_snapshot",
            ZFS_delete_snapshot(World, state_name, snapshot_name, fault))

snapshot(slot_str, snapshot_name, fault) ==
  /\ ~IsZFS
  /\ Return("snapshot",
            Local_cmd_snapshot(World, slot_str, snapshot_name, fault))

\* libzfs fixes no order among the filesystems it lists, so any listed
\* snapshot with the short name can be the first match.
restore_snapshot(snapshot_name, new_state_name, fault) ==
  LET matches == call_find_snapshot(World, snapshot_name)
  IN \E found \in (IF matches = {} THEN {{}} ELSE {{m} : m \in matches}) :
       Return("restore_snapshot",
              call_restore_snapshot(World, found, new_state_name, fault))

assign_state(slot_name, state_name, fault) ==
  Return("assign_state",
         call_assign_state(World, slot_name, state_name, fault))

\* The environment: a VM started without a binding leaves a regular file at
\* the slot's data.img, a new disk image whose content is not that of the
\* backup beside it.
PutRegularFile(slot) ==
  /\ nops < MaxOps
  /\ slotData[slot].kind = "none"
  /\ slotData' = [slotData EXCEPT
                    ![slot] = RegularFile(backup[slot].content + 1)]
  /\ nops' = nops + 1
  /\ UNCHANGED <<impl, zfs_handle_, datasets, registry, backup, last, codec,
                 scen, conc>>

SnapNames == UserSnapNames \cup {CloneSnapName(<<"slot1">>)}

CreateFaults == {"none", "zfs_create", "chown"}

DeleteFaults == {"none", "zfs_destroy", "zfs_destroy_snapshot"}

CloneFaults == {"none", "zfs_snapshot", "zfs_clone", "zfs_promote", "chown"}

RestoreFaults == {"none", "zfs_clone", "zfs_promote", "chown"}

\* "unlink" is the removal of the old symlink or the renaming of the old file.
AssignFaults ==
  {"none", "zfs_create", "chown", "save", "mkdir", "unlink", "symlink"}

NoFile == [exists |-> FALSE, content |-> <<>>]

NoCodec ==
  [pc |-> "off", m |-> EmptyMap, file |-> NoFile, back |-> EmptyMap,
   old |-> NoFile, slot |-> "slot1"]

NoScen == [pc |-> "off", state |-> <<>>, slot |-> "", snap |-> <<>>]

NoConc == [reg |-> 0, tmp |-> 0, inodes |-> <<>>, procs |-> <<>>, saved |-> {}]

EmptyDatasets ==
  [p \in {base_path} |-> [snaps |-> <<>>, origin |-> NoOrigin]]

Init ==
  /\ impl \in {ZFSStateProvider, LocalZfsBackend}
  /\ zfs_handle_ \in (IF impl = ZFSStateProvider THEN BOOLEAN ELSE {TRUE})
  /\ datasets = EmptyDatasets
  /\ registry = [exists |-> FALSE, map |-> EmptyMap]
  /\ slotData = [s \in Range(slots_) |-> NoEntry]
  /\ backup = [s \in Range(slots_) |-> NoEntry]
  /\ last = [op |-> "init", ok |-> TRUE, err |-> "None"]
  /\ nops = 0
  /\ codec = NoCodec
  /\ scen = NoScen
  /\ conc = NoConc

Next ==
  \/ \E n \in StateNames, f \in CreateFaults : create_state(n, f)
  \/ \E n \in StateNames, force \in BOOLEAN, f \in DeleteFaults :
       delete_state(n, force, f)
  \/ \E a \in StateNames, b \in StateNames, f \in CloneFaults :
       clone_state(a, b, f)
  \/ \E n \in StateNames, sn \in SnapNames, f \in {"none", "zfs_snapshot"} :
       create_snapshot(n, sn, f)
  \/ \E n \in StateNames, sn \in SnapNames, f \in {"none", "zfs_destroy"} :
       delete_snapshot(n, sn, f)
  \/ \E s \in SlotArgs, sn \in SnapNames, f \in {"none", "zfs_snapshot"} :
       snapshot(s, sn, f)
  \/ \E sn \in SnapNames, n \in StateNames, f \in RestoreFaults :
       restore_snapshot(sn, n, f)
  \/ \E s \in SlotArgs, n \in StateNames, f \in AssignFaults :
       assign_state(s, n, f)
  \/ \E s \in SlotArgs \cap Range(slots_) : PutRegularFile(s)

Spec == Init /\ [][Next]_vars

(***************************************************************************)
(* The registry codec (vm-state-cpp/src/utils/json.cpp) on the characters  *)
(* of the file.  A string is the sequence of its characters; a position is *)
(* the C++ index plus one.                                                 *)
(***************************************************************************)
DQ == "\""

BS == "\\"

NL == "\n"

Alphabet == {DQ, BS, NL, "n", "}"}

isspace(c) == c \in {" ", "\t", "\n", "\r"}

RECURSIVE skip_ws(_, _)
skip_ws(s, pos) ==
  IF pos <= Len(s) /\ isspace(s[pos]) THEN skip_ws(s, pos + 1) ELSE pos

NoString == [ok |-> FALSE, val |-> <<>>, pos |-> 0]

\* The switch of parse_string on the character after a backslash.
unescape_char(c) ==
  IF c = "n" THEN "\n" ELSE IF c = "t" THEN "\t" ELSE IF c = "r" THEN "\r"
  ELSE c

\* The while loop of parse_string, from the character after the opening quote.
RECURSIVE parse_string_loop(_, _, _)
parse_string_loop(s, pos, result) ==
  IF pos <= Len(s) /\ s[pos] # DQ
  THEN IF s[pos] = BS /\ pos + 1 <= Len(s)
       THEN parse_string_loop(s, pos + 2,
                              Append(result, unescape_char(s[pos + 1])))
       ELSE parse_string_loop(s, pos + 1, Append(result, s[pos]))
  ELSE IF pos > Len(s) THEN NoString
       ELSE [ok |-> TRUE, val |-> result, pos |-> pos + 1]

parse_string(s, pos) ==
  LET p == skip_ws(s, pos)
  IN IF p > Len(s) \/ s[p] # DQ THEN NoString
     ELSE parse_string_loop(s, p + 1, <<>>)

escape_char(c) ==
  IF c = DQ THEN <<BS, DQ>>
  ELSE IF c = BS THEN <<BS, BS>>
  ELSE IF c = "\n" THEN <<BS, "n">>
  ELSE IF c = "\t" THEN <<BS, "t">>
  ELSE IF c = "\r" THEN <<BS, "r">>
  ELSE <<c>>

\* An encoder that writes every character as it is.
escape_nothing(s) == s

RECURSIVE escape_string(_)
escape_string(s) ==
  IF s = <<>> THEN <<>> ELSE escape_char(Head(s)) \o escape_string(Tail(s))

\* The while loop of parse_json_object, from the character after '{'.
RECURSIVE parse_json_loop(_, _, _)
parse_json_loop(json, pos, result) ==
  IF pos > Len(json) THEN result
  ELSE
    LET p == skip_ws(json, pos)
    IN IF p <= Len(json) /\ json[p] = "}" THEN result
       ELSE
         LET key == parse_string(json, p)
             p2 == skip_ws(json, key.pos)
             value == parse_string(json, p2 + 1)
             p3 == skip_ws(json, value.pos)
             p4 == IF p3 <= Len(json) /\ json[p3] = "," THEN p3 + 1 ELSE p3
         IN IF ~key.ok THEN EmptyMap
            ELSE IF p2 > Len(json) \/ json[p2] # ":" THEN EmptyMap
            ELSE IF ~value.ok THEN EmptyMap
            ELSE parse_json_loop(json, p4, MapPut(result, key.val, value.val))

parse_json_object(json) ==
  LET p == skip_ws(json, 1)
  IN IF p > Len(json) \/ json[p] # "{" THEN EmptyMap
     ELSE parse_json_loop(json, p + 1, EmptyMap)

\* A slot identifier as characters.
SlotChars(slot) ==
  <<"s", "l", "o", "t">>
    \o (IF slot = "slot1" THEN <<"1">> ELSE IF slot = "slot2" THEN <<"2">>
        ELSE IF slot = "slot3" THEN <<"3">> ELSE IF slot = "slot4" THEN <<"4">>
        ELSE <<"5">>)

\* The keys of a std::map come in their sorted order, which for the slot
\* identifiers is the order of slots_.
SortedKeys(data) ==
  SelectSeq([i \in DOMAIN slots_ |-> SlotChars(slots_[i])],
            LAMBDA k : k \in DOMAIN data)

RECURSIVE to_json_entries(_, _, _)
to_json_entries(data, keys, first) ==
  IF keys = <<>> THEN <<>>
  ELSE (IF first THEN <<>> ELSE <<",", "\n">>)
       \o <<" ", " ", DQ>> \o escape_string(Head(keys))
       \o <<DQ, ":", " ", DQ>> \o escape_string(data[Head(keys)]) \o <<DQ>>
       \o to_json_entries(data, Tail(keys), FALSE)

\* An encoder that writes the last entry only.
to_json_last_entry(data) ==
  IF DOMAIN data = {} THEN <<"{", "}">>
  ELSE <<"{", "\n">>
       \o to_json_entries(data, <<SortedKeys(data)[Len(SortedKeys(data))]>>, TRUE)
       \o <<"\n", "}">>

to_json_object(data) ==
  IF DOMAIN data = {} THEN <<"{", "}">>
  ELSE <<"{", "\n">> \o to_json_entries(data, SortedKeys(data), TRUE)
       \o <<"\n", "}">>

\* read_json_file: [some, map]; some is FALSE for std::nullopt.
read_json_file(file) ==
  IF ~file.exists THEN [some |-> FALSE, map |-> EmptyMap]
  ELSE IF file.content = <<>> THEN [some |-> TRUE, map |-> EmptyMap]
  ELSE [some |-> TRUE, map |-> parse_json_object(file.content)]

\* write_json_file: the temporary file is written and renamed over the path;
\* when any of that fails the file at the path is as it was.
write_json_file(file, data, envFail) ==
  IF envFail THEN [ok |-> FALSE, file |-> file]
  ELSE [ok |-> TRUE,
        file |-> [exists |-> TRUE, content |-> to_json_object(data) \o <<"\n">>]]

load_assignments(file) ==
  LET result == read_json_file(file)
  IN IF result.some THEN result.map ELSE EmptyMap

save_assignments(file, assignments, envFail) ==
  write_json_file(file, assignments, envFail)

(***************************************************************************)
(* The codec exercised: a mapping is saved to the registry file and loaded *)
(* back.                                                                   *)
(***************************************************************************)
Strings == UNION {[1..k -> Alphabet] : k \in 0..MaxStrLen}

KeySets ==
  {{}, {"slot1"}, {"slot1", "slot2"}, Range(slots_)}

\* The mappings tried: none, one, two or all five slots, with two state names.
CodecMaps ==
  {[k \in {SlotChars(sl) : sl \in ks} |->
      IF k = SlotChars("slot1") THEN v ELSE u] :
     ks \in KeySets, v \in Strings, u \in Strings}

InitCodec ==
  /\ impl = ZFSStateProvider
  /\ zfs_handle_ = TRUE
  /\ datasets = EmptyDatasets
  /\ registry = [exists |-> FALSE, map |-> EmptyMap]
  /\ slotData = [s \in Range(slots_) |-> NoEntry]
  /\ backup = [s \in Range(slots_) |-> NoEntry]
  /\ last = [op |-> "init", ok |-> TRUE, err |-> "None"]
  /\ nops = 0
  /\ scen = NoScen
  /\ conc = NoConc
  /\ codec \in {[NoCodec EXCEPT !.pc = "start", !.m = m] : m \in CodecMaps}

RegistrySave(envFail) ==
  /\ codec.pc = "start"
  /\ LET sv == save_assignments(codec.file, codec.m, envFail)
     IN codec' = [codec EXCEPT !.pc = IF sv.ok THEN "saved" ELSE "save failed",
                               !.file = sv.file]
  /\ UNCHANGED <<impl, zfs_handle_, datasets, registry, slotData, backup,
                 last, nops, scen, conc>>

RegistryLoad ==
  /\ codec.pc \in {"start", "saved", "save failed"}
  /\ codec' = [codec EXCEPT
                 !.pc = IF codec.pc = "saved" THEN "loaded" ELSE "loaded none",
                 !.back = load_assignments(codec.file)]
  /\ UNCHANGED <<impl, zfs_handle_, datasets, registry, slotData, backup,
                 last, nops, scen, conc>>

NextCodec ==
  \/ \E envFail \in BOOLEAN : RegistrySave(envFail)
  \/ RegistryLoad

SpecCodec == InitCodec /\ [][NextCodec]_vars

(***************************************************************************)
(* The walk-through of one state bound to one slot: create, assign,        *)
(* snapshot, delete (refused), assign the slot back to its own state,      *)
(* delete.  No call is made to fail by the environment.                    *)
(***************************************************************************)
ScenStates == {<<"dev">>, <<"env">>, <<"prod">>}

ScenSnaps == {<<"before">>, <<"nightly">>}

InitScenario ==
  /\ impl \in {ZFSStateProvider, LocalZfsBackend}
  /\ zfs_handle_ = TRUE
  /\ datasets = EmptyDatasets
  /\ registry = [exists |-> FALSE, map |-> EmptyMap]
  /\ slotData = [s \in Range(slots_) |-> NoEntry]
  /\ backup = [s \in Range(slots_) |-> NoEntry]
  /\ last = [op |-> "init", ok |-> TRUE, err |-> "None"]
  /\ nops = 0
  /\ codec = NoCodec
  /\ conc = NoConc
  /\ scen \in {[pc |-> "start", state |-> st, slot |-> sl, snap |-> sn] :
                 st \in ScenStates, sl \in Range(slots_), sn \in ScenSnaps}

\* One call of the walk-through, moving it from one position to the next.
ScenStep(from, to, op, r) ==
  /\ scen.pc = from
  /\ scen' = [scen EXCEPT !.pc = to]
  /\ datasets' = r.w.ds
  /\ registry' = r.w.reg
  /\ slotData' = r.w.slotData
  /\ backup' = r.w.backup
  /\ last' = [op |-> op, ok |-> r.ok, err |-> r.err]
  /\ UNCHANGED <<impl, zfs_handle_, nops, codec, conc>>

ScenCreate ==
  ScenStep("start", "created", "create_state",
           call_create_state(World, scen.state, "none"))

ScenAssign ==
  ScenStep("created", "assigned", "assign_state",
           call_assign_state(World, scen.slot, scen.state, "none"))

\* create_snapshot(state, name); the LocalZfsBackend snapshots the state of
\* the slot.
ScenSnapshot ==
  ScenStep("assigned", "snapshotted", "create_snapshot",
           IF impl = ZFSStateProvider
           THEN ZFS_create_snapshot(World, scen.state, scen.snap, "none")
           ELSE Local_cmd_snapshot(World, scen.slot, scen.snap, "none"))

ScenDeleteInUse ==
  ScenStep("snapshotted", "refused", "delete_state",
           call_delete_state(World, scen.state, FALSE, "none"))

ScenAssignBack ==
  ScenStep("refused", "reassigned", "assign_state",
           call_assign_state(World, scen.slot, AsStateName(scen.slot), "none"))

ScenDelete ==
  ScenStep("reassigned", "deleted", "delete_state",
           call_delete_state(World, scen.state, FALSE, "none"))

NextScenario ==
  \/ ScenCreate
  \/ ScenAssign
  \/ ScenSnapshot
  \/ ScenDeleteInUse
  \/ ScenAssignBack
  \/ ScenDelete

SpecScenario == InitScenario /\ [][NextScenario]_vars

(***************************************************************************)
(* Properties.  A call's outcome in a state is what its operator returns   *)
(* for the world of that state; the properties are stated over every       *)
(* reachable state and every input of the call.                            *)
(***************************************************************************)

\* C1: for every state name n that does not exist, a successful
\* create_state(n) leaves state_exists(n) true, and get_state_info(n) reports
\* the dataset <pool>/<base>/<n>, which lies one level below the base dataset.
C1_CreateThenExists ==
  \A n \in StateNames, f \in CreateFaults :
    LET r == call_create_state(World, n, f)
    IN (~call_state_exists(World, n) /\ r.ok) =>
         /\ call_state_exists(r.w, n)
         /\ IsZFS =>
              ZFS_get_state_info(r.w, n) =
                {[name |-> n, dataset |-> <<pool_>> \o base_dataset_ \o n]}
         /\ Parent(get_dataset_path(n)) = base_path

\* C2: an unforced delete_state(n) of an existing state that some fixed slot
\* maps to (by a registry entry or by the default rule) fails with InUse and
\* leaves n existing; a forced delete_state(n) of an existing state leaves
\* state_exists(n) false.  States that hold nested datasets are set aside.
C2_DeleteInUseOrForced ==
  \A n \in StateNames :
    (call_state_exists(World, n)
       /\ ~HasChildren(datasets, get_dataset_path(n))) =>
      /\ (\E i \in DOMAIN slots_ :
            call_get_slot_state(registry, slots_[i]) = n) =>
           LET r == call_delete_state(World, n, FALSE, "none")
           IN ~r.ok /\ r.err = "InUse" /\ call_state_exists(r.w, n)
      /\ IsZFS =>
           LET r == ZFS_delete_state(World, n, TRUE, "none")
           IN ~ZFS_state_exists(r.w, n)

\* C3: after a successful clone_state(A, B), with A referenced by no slot, an
\* unforced delete_state(A) succeeds and leaves B existing and listed by
\* list_states.  Sources that hold nested datasets are set aside.
C3_CloneOutlivesSource ==
  \A a \in StateNames, b \in StateNames, f \in CloneFaults :
    LET c == call_clone_state(World, a, b, f)
        d == call_delete_state(c.w, a, FALSE, "none")
    IN (/\ c.ok
        /\ ~HasChildren(datasets, get_dataset_path(a))
        /\ \A i \in DOMAIN slots_ :
             call_get_slot_state(c.w.reg, slots_[i]) # a) =>
         /\ d.ok
         /\ call_state_exists(d.w, b)
         /\ \E e \in call_list_states(d.w) : e.name = b

\* C4: for every valid slot s and every state name S that does not exist, a
\* successful assign_state(s, S) leaves state_exists(S) true and
\* get_slot_state(s) = S.
C4_AssignCreatesAndBinds ==
  \A s \in SlotArgs \cap Range(slots_), S \in StateNames, f \in AssignFaults :
    LET r == call_assign_state(World, s, S, f)
    IN (~call_state_exists(World, S) /\ r.ok) =>
         /\ call_state_exists(r.w, S)
         /\ call_get_slot_state(r.w.reg, s) = S

\* C5: from no states and an empty registry, after create_state(dev),
\* assign_state(slot1, dev), create_snapshot(dev, before): list_states is
\* exactly {dev}, get_slot_state(slot1) = dev and find_snapshot(before) is a
\* snapshot of dev; delete_state(dev) then fails with InUse; and after
\* assign_state(slot1, slot1), delete_state(dev) succeeds and dev no longer
\* exists.
C5_Walkthrough ==
  /\ scen.pc = "snapshotted" =>
       /\ {e.name : e \in call_list_states(World)} = {scen.state}
       /\ call_get_slot_state(registry, scen.slot) = scen.state
       /\ call_find_snapshot(World, scen.snap) # {}
       /\ \A sn \in call_find_snapshot(World, scen.snap) :
            sn.state_name = scen.state
  /\ scen.pc = "refused" =>
       ~last.ok /\ last.err = "InUse" /\ call_state_exists(World, scen.state)
  /\ scen.pc = "deleted" =>
       last.ok /\ ~call_state_exists(World, scen.state)

\* C6: is_state_in_use(S) returns none exactly when no fixed slot maps to S
\* (a slot without a registry entry maps to its own name), and otherwise the
\* first slot, in the order of the fixed slots, that maps to S.
C6_InUseIsFirstSlot ==
  \A S \in StateNames \cup {AsStateName(slots_[i]) : i \in DOMAIN slots_} :
    LET users == {i \in DOMAIN slots_ :
                    (IF registry.exists /\ slots_[i] \in DOMAIN registry.map
                     THEN registry.map[slots_[i]]
                     ELSE <<slots_[i]>>) = S}
        r == ZFS_is_state_in_use(registry, S)
    IN IF users = {} THEN r = NoSlot
       ELSE r = <<slots_[CHOOSE i \in users : \A j \in users : i <= j]>>

\* C6 happens: slot1 is bound elsewhere, slot2 is bound to the state slot1,
\* and is_state_in_use(slot1) answers slot2; dev is in use by slot1.
C6_FirstSlotSkipped ==
  /\ registry.exists
  /\ ZFS_get_slot_state(registry, "slot1") = <<"dev">>
  /\ ZFS_get_slot_state(registry, "slot2") = <<"slot1">>
  /\ ZFS_is_state_in_use(registry, <<"slot1">>) = <<"slot2">>
  /\ ZFS_is_state_in_use(registry, <<"dev">>) = <<"slot1">>
  /\ ZFS_is_state_in_use(registry, <<"dev", "x">>) = NoSlot

\* C7: a mapping written to the registry file and read back is the same
\* mapping, for mappings of no slot, some slots and all five slots.
C7_RoundTrip == codec.pc = "loaded" => codec.back = codec.m

\* C7 happens: a mapping of all five slots, one of them to a name holding a
\* quote and another to a name holding a backslash, was written and read.
C7_AllFiveRead ==
  /\ codec.pc = "loaded"
  /\ DOMAIN codec.m = {SlotChars(sl) : sl \in Range(slots_)}
  /\ DQ \in Range(codec.m[SlotChars("slot1")])
  /\ BS \in Range(codec.m[SlotChars("slot2")])

\* C8: list_states never holds the base dataset nor a dataset two or more
\* levels below it: every entry is a direct child of the base dataset.
C8_ListOnlyDirectChildren ==
  \A e \in ZFS_list_states(World) \cup Local_list_states(World) :
    /\ e.dataset # base_path
    /\ Len(e.dataset) = Len(base_path) + 1
    /\ Parent(e.dataset) = base_path

\* C8 happens: a dataset two levels below the base exists while states are
\* listed.
C8_NestedDatasetPresent ==
  /\ get_dataset_path(<<"dev", "x">>) \in DOMAIN datasets
  /\ call_list_states(World) # {}

\* C9: get_slot_state(s) is the registry entry of s when there is one and the
\* name s otherwise, also when there is no registry file; list_assignments
\* has exactly one record per fixed slot, and the record of s is
\* get_slot_state(s).
C9_SlotStateDefaultsToOwnName ==
  \A i \in DOMAIN slots_ :
    LET s == slots_[i]
        expected == IF registry.exists /\ s \in DOMAIN registry.map
                    THEN registry.map[s] ELSE <<s>>
        list == ZFS_list_assignments(registry)
    IN /\ ZFS_get_slot_state(registry, s) = expected
       /\ Local_get_slot_state(registry, s) = expected
       /\ Len(list) = Len(slots_)
       /\ list[i].slot_name = s
       /\ list[i].state_name = ZFS_get_slot_state(registry, s)

\* C9 happens: the registry file holds an entry for slot2 that is not its own
\* name and no entry for slot1.
C9_EntryAndDefault ==
  /\ registry.exists
  /\ "slot2" \in DOMAIN registry.map
  /\ registry.map["slot2"] # <<"slot2">>
  /\ "slot1" \notin DOMAIN registry.map

\* C10: assign_state with a slot that is not a fixed slot identifier fails
\* with InvalidSlot and changes nothing: no dataset, no registry content and
\* no data.img entry differs after the call.
C10_InvalidSlotRejected ==
  \A s \in SlotArgs \ Range(slots_), n \in StateNames, f \in AssignFaults :
    LET r == call_assign_state(World, s, n, f)
    IN ~r.ok /\ r.err = "InvalidSlot" /\ r.w = World

\* C10 happens: a state and a registry file exist, and an assign_state with
\* a slot outside the fixed set is refused with InvalidSlot.
C10_InvalidSlotSeen ==
  /\ registry.exists
  /\ call_list_states(World) # {}
  /\ \E s \in SlotArgs \ Range(slots_), n \in StateNames :
       call_assign_state(World, s, n, "none").err = "InvalidSlot"

\* C11: whenever delete_state(n) of an existing state reports success, the
\* dataset of n is gone with all of its snapshots: state_exists(n) is false
\* and list_snapshots holds no snapshot whose state_name is n.
C11_DeleteTakesSnapshots ==
  \A n \in StateNames, force \in BOOLEAN, f \in DeleteFaults :
    LET r == call_delete_state(World, n, force, f)
    IN (call_state_exists(World, n) /\ r.ok) =>
         /\ ~call_state_exists(r.w, n)
         /\ get_dataset_path(n) \notin DOMAIN r.w.ds
         /\ \A s \in call_list_snapshots(r.w) : s.state_name # n

\* C11 happens: a state that owns a snapshot is deleted with success, and the
\* snapshot is listed before the call.
C11_StateWithSnapshotDeleted ==
  \E n \in StateNames :
    /\ call_state_exists(World, n)
    /\ \E s \in call_list_snapshots(World) : s.state_name = n
    /\ call_delete_state(World, n, FALSE, "none").ok

\* C12: create_state(n) on a state that exists fails with AlreadyExists and
\* changes nothing: the states, their snapshots and the registry are as
\* before.
C12_CreateExistingRefused ==
  \A n \in StateNames, f \in CreateFaults :
    LET r == call_create_state(World, n, f)
    IN call_state_exists(World, n) =>
         /\ ~r.ok
         /\ r.err = "AlreadyExists"
         /\ r.w = World

\* C12 happens: a state owns a snapshot, and create_state of an existing
\* state is refused with AlreadyExists.
C12_AlreadyExistsSeen ==
  /\ call_list_snapshots(World) # {}
  /\ \E n \in StateNames :
       /\ call_state_exists(World, n)
       /\ call_create_state(World, n, "none").err = "AlreadyExists"

\* C13: on an initialised provider, clone_state(source, dest) fails with
\* NotFound when source does not exist and with AlreadyExists when source
\* exists and dest exists; either way no snapshot and no dataset is created
\* (the refused call adds no clone-for-<dest> snapshot to the source: the
\* datasets and their snapshots are those before the call).
C13_CloneRefusedCleanly ==
  \A a \in StateNames, b \in StateNames, f \in CloneFaults :
    LET r == call_clone_state(World, a, b, f)
    IN /\ (zfs_handle_ /\ ~call_state_exists(World, a)) =>
            ~r.ok /\ r.err = "NotFound" /\ r.w = World
       /\ (call_state_exists(World, a) /\ call_state_exists(World, b)) =>
            /\ ~r.ok
            /\ r.err = "AlreadyExists"
            /\ r.w = World
            /\ Len(r.w.ds[get_dataset_path(a)].snaps)
                 = Len(datasets[get_dataset_path(a)].snaps)

\* C13 happens: two states exist, no state owns a snapshot, and clone_state
\* of one to the other is refused with AlreadyExists.
C13_CloneRefusedSeen ==
  /\ \A p \in DOMAIN datasets : datasets[p].snaps = <<>>
  /\ \E a \in StateNames, b \in StateNames :
       /\ a # b
       /\ call_state_exists(World, a)
       /\ call_state_exists(World, b)
       /\ call_clone_state(World, a, b, "none").err = "AlreadyExists"

\* C14: on an initialised provider, restore_snapshot(snap, new) fails with
\* NotFound when no state has a snapshot named snap (and new does not exist),
\* with AlreadyExists when new exists (and such a snapshot does), and with one
\* of the two when both hold; a refused call creates nothing.  Otherwise a
\* call that returns success has created new from the found snapshot:
\* state_exists(new) holds and the state that owned the snapshot still
\* exists; with no backend step failing and a name without '/', the call
\* does return success.
C14_RestoreRefusedOrCreates ==
  \A sn \in SnapNames, new \in StateNames, f \in RestoreFaults :
    LET found == call_find_snapshot(World, sn)
        r == call_restore_snapshot(World, found, new, f)
    IN zfs_handle_ =>
       /\ (found = {} /\ ~call_state_exists(World, new)) =>
            ~r.ok /\ r.err = "NotFound" /\ r.w = World
       /\ (found # {} /\ call_state_exists(World, new)) =>
            ~r.ok /\ r.err = "AlreadyExists" /\ r.w = World
       /\ (found = {} /\ call_state_exists(World, new)) =>
            ~r.ok /\ r.err \in {"NotFound", "AlreadyExists"} /\ r.w = World
       /\ \A s \in found :
            LET r1 == call_restore_snapshot(World, {s}, new, f)
            IN ~call_state_exists(World, new) =>
                 /\ (f = "none" /\ Len(new) = 1) => r1.ok
                 /\ r1.ok => /\ call_state_exists(r1.w, new)
                             /\ call_state_exists(r1.w, s.state_name)
                             /\ get_dataset_path(new) \notin DOMAIN datasets

\* C14 happens: a state owns a snapshot and restore_snapshot of it to a name
\* that is free succeeds, leaving both states.
C14_RestoredSeen ==
  \E sn \in SnapNames, new \in StateNames :
    \E s \in call_find_snapshot(World, sn) :
      LET r == call_restore_snapshot(World, {s}, new, "none")
      IN /\ ~call_state_exists(World, new)
         /\ r.ok
         /\ Cardinality(call_list_states(r.w)) >= 2

\* C15: create_snapshot(state, name) (LocalZfsBackend: snapshot(slot, name),
\* on the slot's state) fails with NotFound when the state does not exist;
\* otherwise a call that returns success has created <dataset_path>@<name>,
\* and the call does return success when zfs_snapshot does not fail (the
\* name is not taken yet).  delete_snapshot(state, name) fails when that
\* snapshot does not exist.  Every failing call of either operation leaves
\* the snapshots (and everything else) as they were.
C15_SnapshotCreateDelete ==
  \A n \in StateNames, sn \in SnapNames, f \in {"none", "zfs_snapshot"} :
    /\ (impl = ZFSStateProvider /\ zfs_handle_) =>
         LET r == ZFS_create_snapshot(World, n, sn, f)
         IN /\ ~ZFS_state_exists(World, n) => ~r.ok /\ r.err = "NotFound"
            /\ ~r.ok => r.w = World
            /\ r.ok => /\ zfs_open_snapshot(r.w.ds, get_dataset_path(n), sn)
                       /\ ZFS_list_snapshots(r.w, n)
                            = ZFS_list_snapshots(World, n)
                              \cup {[name |-> sn, state_name |-> n,
                                     full_name |-> <<get_dataset_path(n), sn>>]}
            /\ (/\ ZFS_state_exists(World, n)
                /\ f = "none"
                /\ ~zfs_open_snapshot(datasets, get_dataset_path(n), sn))
                 => r.ok
    /\ impl = ZFSStateProvider =>
         \A g \in {"none", "zfs_destroy"} :
           LET d == ZFS_delete_snapshot(World, n, sn, g)
           IN /\ ~zfs_open_snapshot(datasets, get_dataset_path(n), sn)
                   => ~d.ok
              /\ ~d.ok => d.w = World
    /\ impl = LocalZfsBackend =>
         \A slot \in Range(slots_) :
           LET state == Local_get_slot_state(registry, slot)
               r == Local_snapshot(World, slot, sn, f)
           IN /\ ~Local_state_exists(World, state)
                   => ~r.ok /\ r.err = "NotFound"
              /\ ~r.ok => r.w = World
              /\ r.ok => zfs_open_snapshot(r.w.ds, get_dataset_path(state), sn)
              /\ (/\ Local_state_exists(World, state)
                  /\ f = "none"
                  /\ ~zfs_open_snapshot(datasets, get_dataset_path(state), sn))
                   => r.ok

\* C15 happens: a state owns a snapshot, a create_snapshot of another name
\* on it succeeds, and a delete_snapshot of a name it does not own is
\* refused.
C15_DeleteRefusedSeen ==
  /\ impl = ZFSStateProvider
  /\ \E n \in StateNames, sn \in SnapNames :
       /\ ZFS_list_snapshots(World, n) # {}
       /\ ~zfs_open_snapshot(datasets, get_dataset_path(n), sn)
       /\ ZFS_create_snapshot(World, n, sn, "none").ok
       /\ ~ZFS_delete_snapshot(World, n, sn, "none").ok

\* C16: when create_state(n) creates the dataset and the chown/chmod of the
\* mount directory fails, the call reports failure and state n is left
\* created (state_exists(n) holds after the failed call).
C16_OwnershipFailureReported ==
  \A n \in StateNames :
    LET r == call_create_state(World, n, "chown")
    IN (/\ get_dataset_path(n) \notin DOMAIN datasets
        /\ get_dataset_path(n) \in DOMAIN r.w.ds)
         => ~r.ok /\ call_state_exists(r.w, n)

\* C17: after every successful assign_state(s, S) the entry
\* <slots-root>/<s>/data.img is a symlink to <states-root>/<S>/data.img,
\* where S = get_slot_state(s); a symlink that was at that path before has
\* been replaced.
C17_SymlinkFollowsAssignment ==
  \A s \in SlotArgs \cap Range(slots_), S \in StateNames, f \in AssignFaults :
    LET r == call_assign_state(World, s, S, f)
    IN r.ok =>
         /\ r.w.slotData[s] = Symlink(S)
         /\ call_get_slot_state(r.w.reg, s) = S

\* C18: assign_state never deletes a regular file found at a slot's data.img
\* path.  The file is renamed to data.img.backup, and the content of every
\* regular file in a slot directory (at data.img or at data.img.backup) is
\* still in that directory after any assign_state, whatever its outcome.
C18_RegularFilesKept ==
  \A s \in SlotArgs \cap Range(slots_), S \in StateNames, f \in AssignFaults :
    LET r == call_assign_state(World, s, S, f)
        FilesOf(w, slot) ==
          {e.content : e \in {x \in {w.slotData[slot], w.backup[slot]} :
                                x.kind = "file"}}
    IN /\ (slotData[s].kind = "file" /\ r.ok) => r.w.backup[s] = slotData[s]
       /\ \A slot \in Range(slots_) :
            FilesOf(World, slot) \subseteq FilesOf(r.w, slot)

\* C19 as stated: after a successful clone_state(A, B), list_snapshots(A)
\* contains a snapshot with short name clone-for-B.
C19_SnapshotStaysOnSource ==
  \A a \in StateNames, b \in StateNames, f \in CloneFaults :
    LET r == call_clone_state(World, a, b, f)
    IN r.ok => \E s \in call_list_snapshots(r.w) :
                  s.state_name = a /\ s.name = CloneSnapName(b)

\* C19, amended: after a successful clone_state(A, B) the snapshot
\* clone-for-B has not been deleted, and the promotion has moved it to the
\* new state: list_snapshots(B) contains it, A's dataset no longer has it and
\* A has become a clone of B@clone-for-B (B taking over what A was a clone
\* of, if anything).  Only when zfs_promote failed,
\* which LocalZfsBackend does not notice, is the snapshot still on A, with B
\* a clone of it.
C19_SnapshotMovesToClone ==
  \A a \in StateNames, b \in StateNames, f \in CloneFaults :
    LET r == call_clone_state(World, a, b, f)
        A == get_dataset_path(a)
        B == get_dataset_path(b)
        snap == CloneSnapName(b)
    IN r.ok =>
         IF impl = LocalZfsBackend /\ f = "zfs_promote"
         THEN /\ zfs_open_snapshot(r.w.ds, A, snap)
              /\ ~zfs_open_snapshot(r.w.ds, B, snap)
              /\ r.w.ds[B].origin = <<A, snap>>
         ELSE /\ \E s \in call_list_snapshots(r.w) :
                   s.state_name = b /\ s.name = snap
              /\ zfs_open_snapshot(r.w.ds, B, snap)
              /\ ~zfs_open_snapshot(r.w.ds, A, snap)
              /\ r.w.ds[A].origin = <<B, snap>>
              /\ r.w.ds[B].origin = datasets[A].origin

\* C19 happens: a state that owns a snapshot already is cloned with success.
C19_CloneDone ==
  \E a \in StateNames, b \in StateNames :
    /\ call_state_exists(World, a)
    /\ datasets[get_dataset_path(a)].snaps # <<>>
    /\ call_clone_state(World, a, b, "none").ok

Commands ==
  {"", "list", "create", "snapshot", "assign", "clone", "delete", "migrate",
   "restore", "start", "stop", "restart", "help", "frobnicate"}

ConfirmInputs == {"DELETE", "delete", "DELETE ", ""}

UnitFaults == {"none", "stop", "start", "restart"}

BaseInv ==
  [cmd |-> "list", nargs |-> 2, root |-> TRUE, state |-> <<"dev">>,
   other |-> <<"slot1">>, slot |-> "slot1", snap |-> <<"before">>,
   confirm |-> "DELETE", fault |-> "none", running |-> FALSE,
   vmfail |-> "none", first |-> <<"dev">>]

Exit(code, w, calls) == [exit |-> code, w |-> w, calls |-> calls]

\* The exit code of a provider call that reported r.
Done(r, calls) == Exit(IF r.ok THEN 0 ELSE 1, r.w, calls)

\* SystemdDBusVMProvider.
VM_is_valid_slot(slot_name) == slot_name \in Range(slots_)

VM_is_running(slot_name, active) == VM_is_valid_slot(slot_name) /\ active

\* start and stop: the unit request named action, refused when vmfail names
\* it.
VM_unit(action, slot_name, vmfail) ==
  VM_is_valid_slot(slot_name) /\ vmfail # action

\* The snapshot the listing gives first among those named snapshot_name.
FirstListed(matches, first) ==
  IF matches = {} THEN {}
  ELSE IF \E m \in matches : m.state_name = first
       THEN {CHOOSE m \in matches : m.state_name = first}
       ELSE {CHOOSE m \in matches : TRUE}

\* Every cmd_ but cmd_help begins with check_root.  cmd_list prints what the
\* providers list and returns 0.
CLI_cmd_list(w, inv) ==
  IF ~inv.root THEN Exit(1, w, <<>>) ELSE Exit(0, w, <<>>)

CLI_cmd_create(w, inv) ==
  IF ~inv.root THEN Exit(1, w, <<>>)
  ELSE IF inv.nargs < 1 THEN Exit(1, w, <<>>)
  ELSE Done(ZFS_create_state(w, inv.state, inv.fault), <<"create_state">>)

CLI_cmd_snapshot(w, inv) ==
  IF ~inv.root THEN Exit(1, w, <<>>)
  ELSE IF inv.nargs < 2 THEN Exit(1, w, <<>>)
  ELSE LET state == ZFS_get_slot_state(w.reg, inv.slot)
       IN Done(ZFS_create_snapshot(w, state, inv.snap, inv.fault),
               <<"create_snapshot">>)

CLI_cmd_assign(w, inv) ==
  IF ~inv.root THEN Exit(1, w, <<>>)
  ELSE IF inv.nargs < 2 THEN Exit(1, w, <<>>)
  ELSE IF ~VM_is_valid_slot(inv.slot) THEN Exit(1, w, <<>>)
  ELSE Done(ZFS_assign_state(w, inv.slot, inv.state, inv.fault),
            <<"assign_state">>)

CLI_cmd_clone(w, inv) ==
  IF ~inv.root THEN Exit(1, w, <<>>)
  ELSE IF inv.nargs < 2 THEN Exit(1, w, <<>>)
  ELSE Done(ZFS_clone_state(w, inv.state, inv.other, inv.fault),
            <<"clone_state">>)

\* A cmd_delete that takes any answer beginning with DELETE.
cmd_delete_prefix_confirm(w, inv) ==
  IF ~inv.root THEN Exit(1, w, <<>>)
  ELSE IF inv.nargs < 1 THEN Exit(1, w, <<>>)
  ELSE IF ZFS_is_state_in_use(w.reg, inv.state) # NoSlot
  THEN Exit(1, w, <<>>)
  ELSE IF inv.confirm \notin {"DELETE", "DELETE "} THEN Exit(1, w, <<>>)
  ELSE Done(ZFS_delete_state(w, inv.state, FALSE, inv.fault),
            <<"delete_state">>)

\* cmd_delete: delete_state is called with its default force = false.
CLI_cmd_delete(w, inv) ==
  IF ~inv.root THEN Exit(1, w, <<>>)
  ELSE IF inv.nargs < 1 THEN Exit(1, w, <<>>)
  ELSE IF ZFS_is_state_in_use(w.reg, inv.state) # NoSlot
  THEN Exit(1, w, <<>>)
  ELSE IF inv.confirm # "DELETE" THEN Exit(1, w, <<>>)
  ELSE Done(ZFS_delete_state(w, inv.state, FALSE, inv.fault),
            <<"delete_state">>)

\* A cmd_migrate that starts the slot whatever assign_state reported.
cmd_migrate_start_anyway(w, inv) ==
  IF ~inv.root THEN Exit(1, w, <<>>)
  ELSE IF inv.nargs < 2 THEN Exit(1, w, <<>>)
  ELSE
    LET running == VM_is_running(inv.slot, inv.running)
        stopped == IF running THEN <<"stop", "sleep">> ELSE <<>>
        a == ZFS_assign_state(w, inv.slot, inv.state, inv.fault)
    IN IF running /\ ~VM_unit("stop", inv.slot, inv.vmfail)
       THEN Exit(1, w, <<"stop">>)
       ELSE IF ~VM_unit("start", inv.slot, inv.vmfail)
       THEN Exit(1, a.w, stopped \o <<"assign_state", "start">>)
       ELSE Exit(IF a.ok THEN 0 ELSE 1, a.w,
                 stopped \o <<"assign_state", "start">>)

CLI_cmd_migrate(w, inv) ==
  IF ~inv.root THEN Exit(1, w, <<>>)
  ELSE IF inv.nargs < 2 THEN Exit(1, w, <<>>)
  ELSE
    LET running == VM_is_running(inv.slot, inv.running)
        stopped == IF running THEN <<"stop", "sleep">> ELSE <<>>
        a == ZFS_assign_state(w, inv.slot, inv.state, inv.fault)
    IN IF running /\ ~VM_unit("stop", inv.slot, inv.vmfail)
       THEN Exit(1, w, <<"stop">>)
       ELSE IF ~a.ok THEN Exit(1, a.w, stopped \o <<"assign_state">>)
       ELSE IF ~VM_unit("start", inv.slot, inv.vmfail)
       THEN Exit(1, a.w, stopped \o <<"assign_state", "start">>)
       ELSE Exit(0, a.w, stopped \o <<"assign_state", "start">>)

CLI_cmd_restore(w, inv) ==
  IF ~inv.root THEN Exit(1, w, <<>>)
  ELSE IF inv.nargs < 2 THEN Exit(1, w, <<>>)
  ELSE Done(ZFS_restore_snapshot(
              w, FirstListed(ZFS_find_snapshot(w, inv.snap), inv.first),
              inv.state, inv.fault),
            <<"restore_snapshot">>)

\* CLI::run: no command word lists.
CLI_run(w, inv) ==
  IF inv.cmd = "" THEN CLI_cmd_list(w, inv)
  ELSE IF inv.cmd = "list" THEN CLI_cmd_list(w, inv)
  ELSE IF inv.cmd = "create" THEN CLI_cmd_create(w, inv)
  ELSE IF inv.cmd = "snapshot" THEN CLI_cmd_snapshot(w, inv)
  ELSE IF inv.cmd = "assign" THEN CLI_cmd_assign(w, inv)
  ELSE IF inv.cmd = "clone" THEN CLI_cmd_clone(w, inv)
  ELSE IF inv.cmd = "delete" THEN CLI_cmd_delete(w, inv)
  ELSE IF inv.cmd = "migrate" THEN CLI_cmd_migrate(w, inv)
  ELSE IF inv.cmd = "restore" THEN CLI_cmd_restore(w, inv)
  ELSE IF inv.cmd = "help" THEN Exit(0, w, <<>>)
  ELSE Exit(1, w, <<>>)

\* vm-state/src/main.cpp.  A thrown VmStateError is caught in main and gives
\* exit code 1.
Local_cmd_delete(w, inv) ==
  IF inv.confirm # "DELETE" THEN Exit(1, w, <<>>)
  ELSE Done(Local_delete_state(w, inv.state, inv.fault), <<"delete_state">>)

Local_cmd_restore(w, inv) ==
  Done(Local_restore_snapshot(
         w, FirstListed({s \in Local_list_snapshots(w) : s.name = inv.snap},
                        inv.first),
         inv.state, inv.fault),
       <<"restore_snapshot">>)

\* systemctl(action, slot): a non-zero status is thrown.
Local_systemctl(action, vmfail) == vmfail # action

\* LocalZfsBackend::migrate.
Local_migrate(w, state, slot, inv) ==
  LET stopped == IF inv.running THEN <<"stop", "sleep">> ELSE <<>>
      a == Local_assign(w, slot, state, inv.fault)
  IN IF inv.running /\ ~Local_systemctl("stop", inv.vmfail)
     THEN Exit(1, w, <<"stop">>)
     ELSE IF ~a.ok THEN Exit(1, a.w, stopped \o <<"assign_state">>)
     ELSE IF ~Local_systemctl("start", inv.vmfail)
     THEN Exit(1, a.w, stopped \o <<"assign_state", "start">>)
     ELSE Exit(0, a.w, stopped \o <<"assign_state", "start">>)

Local_cmd_migrate(w, inv) ==
  IF slot_from_string(inv.slot) = <<>> THEN Exit(1, w, <<>>)
  ELSE Local_migrate(w, inv.state, slot_from_string(inv.slot)[1], inv)

\* cmd_start, cmd_stop, cmd_restart.
Local_cmd_unit(w, inv) ==
  IF slot_from_string(inv.slot) = <<>> THEN Exit(1, w, <<>>)
  ELSE Exit(IF Local_systemctl(inv.cmd, inv.vmfail) THEN 0 ELSE 1, w,
            <<inv.cmd>>)

\* main: help is answered before the backend is constructed; the constructor
\* throws for a user other than root; the argument count is looked at after.
Local_main(w, inv) ==
  IF inv.cmd = "help" THEN Exit(0, w, <<>>)
  ELSE IF ~inv.root THEN Exit(1, w, <<>>)
  ELSE IF inv.cmd \in {"", "list"} THEN Exit(0, w, <<>>)
  ELSE IF inv.cmd \in {"create", "delete", "start", "stop", "restart"}
          /\ inv.nargs < 1
  THEN Exit(1, w, <<>>)
  ELSE IF inv.cmd \in {"snapshot", "assign", "clone", "migrate", "restore"}
          /\ inv.nargs < 2
  THEN Exit(1, w, <<>>)
  ELSE IF inv.cmd = "create"
  THEN Done(Local_create_state(w, inv.state, inv.fault), <<"create_state">>)
  ELSE IF inv.cmd = "snapshot"
  THEN Done(Local_cmd_snapshot(w, inv.slot, inv.snap, inv.fault),
            <<"snapshot">>)
  ELSE IF inv.cmd = "assign"
  THEN Done(Local_cmd_assign(w, inv.slot, inv.state, inv.fault),
            <<"assign_state">>)
  ELSE IF inv.cmd = "clone"
  THEN Done(Local_clone_state(w, inv.state, inv.other, inv.fault),
            <<"clone_state">>)
  ELSE IF inv.cmd = "delete" THEN Local_cmd_delete(w, inv)
  ELSE IF inv.cmd = "migrate" THEN Local_cmd_migrate(w, inv)
  ELSE IF inv.cmd = "restore" THEN Local_cmd_restore(w, inv)
  ELSE IF inv.cmd \in {"start", "stop", "restart"}
  THEN Local_cmd_unit(w, inv)
  ELSE Exit(1, w, <<>>)

call_main(w, inv) ==
  IF impl = ZFSStateProvider THEN CLI_run(w, inv) ELSE Local_main(w, inv)

\* The invocations looked at: every command word without root and with too
\* few arguments, and each command with its arguments and its environment.
Invocations ==
  {[BaseInv EXCEPT !.cmd = c, !.root = FALSE] : c \in Commands}
  \cup {[BaseInv EXCEPT !.cmd = c, !.nargs = n] :
          c \in Commands, n \in {0, 1}}
  \cup {[BaseInv EXCEPT !.cmd = "create", !.state = n, !.fault = f] :
          n \in StateNames, f \in CreateFaults}
  \cup {[BaseInv EXCEPT !.cmd = "snapshot", !.slot = s, !.snap = sn,
                        !.fault = f] :
          s \in SlotArgs, sn \in SnapNames, f \in {"none", "zfs_snapshot"}}
  \cup {[BaseInv EXCEPT !.cmd = "assign", !.slot = s, !.state = n,
                        !.fault = f] :
          s \in SlotArgs, n \in StateNames, f \in AssignFaults}
  \cup {[BaseInv EXCEPT !.cmd = "clone", !.state = a, !.other = b,
                        !.fault = f] :
          a \in StateNames, b \in StateNames, f \in CloneFaults}
  \cup {[BaseInv EXCEPT !.cmd = "delete", !.state = n, !.confirm = c,
                        !.fault = f] :
          n \in StateNames, c \in ConfirmInputs,
          f \in {"none", "zfs_destroy"}}
  \cup {[BaseInv EXCEPT !.cmd = "migrate", !.state = n, !.slot = s,
                        !.fault = f, !.running = r, !.vmfail = v] :
          n \in {<<"dev">>, <<"slot1">>}, s \in SlotArgs,
          f \in {"none", "zfs_create", "save", "symlink"}, r \in BOOLEAN,
          v \in {"none", "stop", "start"}}
  \cup {[BaseInv EXCEPT !.cmd = "restore", !.snap = sn, !.state = n,
                        !.first = a, !.fault = f] :
          sn \in SnapNames, n \in StateNames, a \in StateNames,
          f \in RestoreFaults}
  \cup {[BaseInv EXCEPT !.cmd = c, !.slot = s, !.vmfail = v] :
          c \in {"start", "stop", "restart"}, s \in SlotArgs,
          v \in UnitFaults}
  \cup {[BaseInv EXCEPT !.cmd = c] : c \in Commands}

\* One run of the program.
main(inv) ==
  /\ nops < MaxOps
  /\ LET r == call_main(World, inv)
     IN /\ datasets' = r.w.ds
        /\ registry' = r.w.reg
        /\ slotData' = r.w.slotData
        /\ backup' = r.w.backup
  /\ nops' = nops + 1
  /\ UNCHANGED <<impl, zfs_handle_, last, codec, scen, conc>>

NextCli ==
  \/ \E inv \in Invocations : main(inv)
  \/ \E s \in SlotArgs \cap Range(slots_) : PutRegularFile(s)

SpecCli == Init /\ [][NextCli]_vars

(***************************************************************************)
(* Two invocations running at once.  Each is a process of its own; nothing *)
(* in either program takes a lock, so the steps below (one system call or  *)
(* one libzfs call each) interleave freely.  The registry is a directory   *)
(* with two names, the assignments file and the same path with .tmp, each  *)
(* absent (0) or bound to an inode; an inode holds what has been written   *)
(* to it, and full says that the writer's whole text is there (an opened   *)
(* and truncated file is empty until the stream is flushed, which for a    *)
(* text of this size happens once, at close).  The two bindings written    *)
(* below are of equal length, so the later of two writes through two       *)
(* descriptors of one inode replaces the earlier.                          *)
(***************************************************************************)
Procs == 1..NumProcs

\* One invocation: its command, where it stands (pc), its arguments, what it
\* has read, whether it found the state it names missing, and whether it is
\* the one that made that dataset.
Invocation(op, slot, state, dst, snap) ==
  [op |-> op, pc |-> "start", slot |-> slot, state |-> state, dst |-> dst,
   snap |-> snap, loaded |-> EmptyMap, m |-> EmptyMap, fd |-> 0,
   ok |-> FALSE, missing |-> FALSE, made |-> FALSE, states |-> {},
   snaps |-> {}]

AssignProc(slot, state) == Invocation("assign", slot, state, <<>>, <<>>)

CloneProc(source, dest) ==
  Invocation("clone", "", source, dest, CloneSnapName(dest))

\* The list command: what it has read so far is kept in loaded, states and
\* snaps.
ListProc == Invocation("list", "", <<>>, <<>>, <<>>)

CreateProc(name) == Invocation("create", "", <<>>, name, <<>>)

DeleteProc(name) == Invocation("delete", "", name, <<>>, <<>>)

\* restore_snapshot: the state that owns the snapshot is filled in when the
\* snapshot is found.
RestoreProc(snapshot_name, new_state_name) ==
  Invocation("restore", "", <<>>, new_state_name, snapshot_name)

ProcChoices(p) ==
  IF p = 1
  THEN {AssignProc("slot2", <<"dev">>), AssignProc("slot2", <<"slot2">>),
        CloneProc(<<"dev">>, <<"slot1">>), DeleteProc(<<"test">>)}
  ELSE IF p = 2
  THEN {AssignProc("slot3", <<"dev">>), AssignProc("slot3", <<"slot2">>),
        AssignProc("slot3", <<"test">>), CloneProc(<<"dev">>, <<"slot1">>),
        CreateProc(<<"slot1">>), RestoreProc(<<"before">>, <<"slot1">>),
        ListProc}
  ELSE {AssignProc("slot4", <<"dev">>)}

\* The registry after `assign slot1 dev`.
InitialMap == MapPut(EmptyMap, "slot1", <<"dev">>)

Finish(c, p, ok) == [c EXCEPT !.procs[p].pc = "done", !.procs[p].ok = ok]

\* open(2) with O_CREAT | O_TRUNC, as std::ofstream opens a path: a missing
\* name gets a new empty inode, an existing one has its inode emptied.
OpenTruncate(c, p, name) ==
  IF c[name] = 0
  THEN [c EXCEPT ![name] = Len(c.inodes) + 1,
                 !.inodes = Append(@, [map |-> EmptyMap, full |-> FALSE]),
                 !.procs[p].fd = Len(c.inodes) + 1,
                 !.procs[p].pc = "opened",
                 !.saved = @ \cup {c.procs[p].m}]
  ELSE [c EXCEPT !.inodes[c[name]] = [map |-> EmptyMap, full |-> FALSE],
                 !.procs[p].fd = c[name],
                 !.procs[p].pc = "opened",
                 !.saved = @ \cup {c.procs[p].m}]

\* read_json_file through ZFSStateProvider::load_assignments: no file and an
\* empty file both give the empty map.
ZFS_read_registry(c) ==
  IF c.reg = 0 THEN [ok |-> TRUE, map |-> EmptyMap]
  ELSE [ok |-> TRUE, map |-> c.inodes[c.reg].map]

\* LocalZfsBackend::load_assignments: json::parse throws on a text that is
\* not a whole JSON value.
Local_read_registry(c) ==
  IF c.reg = 0 THEN [ok |-> TRUE, map |-> EmptyMap]
  ELSE IF ~c.inodes[c.reg].full THEN [ok |-> FALSE, map |-> EmptyMap]
  ELSE [ok |-> TRUE, map |-> c.inodes[c.reg].map]

call_read_registry(c) ==
  IF impl = ZFSStateProvider THEN ZFS_read_registry(c)
  ELSE Local_read_registry(c)

\* assign_state: load_assignments and assignments[slot] = state.
conc_load(c, p) ==
  LET r == call_read_registry(c)
  IN IF ~r.ok THEN Finish(c, p, FALSE)
     ELSE [c EXCEPT !.procs[p].loaded = r.map,
                    !.procs[p].m = MapPut(r.map, c.procs[p].slot,
                                          c.procs[p].state),
                    !.procs[p].pc = "loaded"]

\* The stream is opened: write_json_file opens <file>.tmp,
\* LocalZfsBackend::save_assignments the assignments file itself.
conc_open(c, p) ==
  OpenTruncate(c, p, IF impl = ZFSStateProvider THEN "tmp" ELSE "reg")

\* A close that reads the registry again and writes it with the one binding
\* changed.
conc_close_merged(c, p) ==
  [c EXCEPT !.inodes[c.procs[p].fd] =
              [map |-> MapPut(IF c.reg = 0 THEN EmptyMap
                              ELSE c.inodes[c.reg].map,
                              c.procs[p].slot, c.procs[p].state),
               full |-> TRUE],
            !.procs[p].pc = IF impl = ZFSStateProvider THEN "written"
                            ELSE "saved"]

\* The text reaches the inode when the stream is closed: file.close() in
\* write_json_file, the destructor in LocalZfsBackend::save_assignments.
conc_close(c, p) ==
  [c EXCEPT !.inodes[c.procs[p].fd] = [map |-> c.procs[p].m, full |-> TRUE],
            !.procs[p].pc = IF impl = ZFSStateProvider THEN "written"
                            ELSE "saved"]

\* rename(<file>.tmp, <file>) at the end of write_json_file; it fails when
\* another invocation has renamed the temporary file away.
conc_rename(c, p) ==
  IF c.tmp = 0 THEN Finish(c, p, FALSE)
  ELSE [c EXCEPT !.reg = c.tmp, !.tmp = 0, !.procs[p].pc = "saved"]

\* What a whole read of the assignments file gives at this moment.
RegistryOf(c) ==
  [exists |-> c.reg # 0,
   map |-> IF c.reg = 0 THEN EmptyMap ELSE c.inodes[c.reg].map]

ConcStep(c) ==
  /\ conc' = c
  /\ registry' = RegistryOf(c)

At(p, op, pc) == conc.procs[p].op = op /\ conc.procs[p].pc = pc

\* assign_state: state_exists,
assign_check(p) ==
  /\ At(p, "assign", "start")
  /\ ConcStep(IF call_state_exists(World, conc.procs[p].state)
              THEN [conc EXCEPT !.procs[p].pc = "created"]
              ELSE [conc EXCEPT !.procs[p].pc = "missing",
                                !.procs[p].missing = TRUE])
  /\ UNCHANGED <<impl, zfs_handle_, datasets, slotData, backup, last, nops,
                 codec, scen>>

\* and create_state when the state was missing.
assign_create(p) ==
  /\ At(p, "assign", "missing")
  /\ LET r == call_create_state(World, conc.procs[p].state, "none")
     IN /\ datasets' = r.w.ds
        /\ ConcStep(IF r.ok
                    THEN [conc EXCEPT !.procs[p].pc = "created",
                                      !.procs[p].made = TRUE]
                    ELSE Finish(conc, p, FALSE))
  /\ UNCHANGED <<impl, zfs_handle_, slotData, backup, last, nops, codec,
                 scen>>

assign_load(p) ==
  /\ At(p, "assign", "created")
  /\ ConcStep(conc_load(conc, p))
  /\ UNCHANGED <<impl, zfs_handle_, datasets, slotData, backup, last, nops,
                 codec, scen>>

assign_open(p) ==
  /\ At(p, "assign", "loaded")
  /\ ConcStep(conc_open(conc, p))
  /\ UNCHANGED <<impl, zfs_handle_, datasets, slotData, backup, last, nops,
                 codec, scen>>

assign_close(p) ==
  /\ At(p, "assign", "opened")
  /\ ConcStep(conc_close(conc, p))
  /\ UNCHANGED <<impl, zfs_handle_, datasets, slotData, backup, last, nops,
                 codec, scen>>

assign_rename(p) ==
  /\ At(p, "assign", "written")
  /\ ConcStep(conc_rename(conc, p))
  /\ UNCHANGED <<impl, zfs_handle_, datasets, slotData, backup, last, nops,
                 codec, scen>>

\* The rebinding of the slot's data.img that ends assign_state.
assign_symlink(p) ==
  /\ At(p, "assign", "saved")
  /\ LET r == ZFS_create_state_symlink(World, conc.procs[p].slot,
                                       conc.procs[p].state, "none")
     IN /\ slotData' = r.w.slotData
        /\ backup' = r.w.backup
        /\ ConcStep(Finish(conc, p, r.ok))
  /\ UNCHANGED <<impl, zfs_handle_, datasets, last, nops, codec, scen>>

\* clone_state: the two state_exists checks.
clone_check(p) ==
  /\ At(p, "clone", "start")
  /\ ConcStep(IF call_state_exists(World, conc.procs[p].state)
                 /\ ~call_state_exists(World, conc.procs[p].dst)
              THEN [conc EXCEPT !.procs[p].pc = "checked"]
              ELSE Finish(conc, p, FALSE))
  /\ UNCHANGED <<impl, zfs_handle_, datasets, slotData, backup, last, nops,
                 codec, scen>>

clone_snapshot(p) ==
  /\ At(p, "clone", "checked")
  /\ LET s == zfs_snapshot(datasets, get_dataset_path(conc.procs[p].state),
                           CloneSnapName(conc.procs[p].dst), FALSE)
     IN /\ datasets' = s.ds
        /\ ConcStep(IF s.ok THEN [conc EXCEPT !.procs[p].pc = "snapshotted"]
                    ELSE Finish(conc, p, FALSE))
  /\ UNCHANGED <<impl, zfs_handle_, slotData, backup, last, nops, codec,
                 scen>>

clone_clone(p) ==
  /\ At(p, "clone", "snapshotted")
  /\ LET c == zfs_clone(datasets, get_dataset_path(conc.procs[p].state),
                        CloneSnapName(conc.procs[p].dst),
                        get_dataset_path(conc.procs[p].dst), FALSE)
     IN /\ datasets' = c.ds
        /\ ConcStep(IF c.ok THEN [conc EXCEPT !.procs[p].pc = "cloned",
                                              !.procs[p].made = TRUE]
                    ELSE Finish(conc, p, FALSE))
  /\ UNCHANGED <<impl, zfs_handle_, slotData, backup, last, nops, codec,
                 scen>>

\* zfs_promote, whose result LocalZfsBackend does not look at, and the
\* permissions of the new mount directory.
clone_promote(p) ==
  /\ At(p, "clone", "cloned")
  /\ LET q == zfs_promote(datasets, get_dataset_path(conc.procs[p].dst),
                          FALSE)
     IN /\ datasets' = q.ds
        /\ ConcStep(Finish(conc, p, q.ok \/ impl = LocalZfsBackend))
  /\ UNCHANGED <<impl, zfs_handle_, slotData, backup, last, nops, codec,
                 scen>>

\* cmd_list: the assignments are read first,
list_assignments(p) ==
  /\ At(p, "list", "start")
  /\ ConcStep(IF call_read_registry(conc).ok
              THEN [conc EXCEPT !.procs[p].loaded =
                                  call_read_registry(conc).map,
                                !.procs[p].pc = "assignments"]
              ELSE Finish(conc, p, FALSE))
  /\ UNCHANGED <<impl, zfs_handle_, datasets, slotData, backup, last, nops,
                 codec, scen>>

\* then the states,
list_states(p) ==
  /\ At(p, "list", "assignments")
  /\ ConcStep([conc EXCEPT !.procs[p].states =
                             {s.name : s \in call_list_states(World)},
                           !.procs[p].pc = "states"])
  /\ UNCHANGED <<impl, zfs_handle_, datasets, slotData, backup, last, nops,
                 codec, scen>>

\* then the snapshots.
list_snapshots(p) ==
  /\ At(p, "list", "states")
  /\ ConcStep(Finish([conc EXCEPT !.procs[p].snaps =
                                    {<<s.state_name, s.name>> :
                                       s \in call_list_snapshots(World)}],
                     p, TRUE))
  /\ UNCHANGED <<impl, zfs_handle_, datasets, slotData, backup, last, nops,
                 codec, scen>>

\* create_state: the state_exists check,
create_check(p) ==
  /\ At(p, "create", "start")
  /\ ConcStep(IF call_state_exists(World, conc.procs[p].dst)
              THEN Finish(conc, p, FALSE)
              ELSE [conc EXCEPT !.procs[p].pc = "checked"])
  /\ UNCHANGED <<impl, zfs_handle_, datasets, slotData, backup, last, nops,
                 codec, scen>>

\* then zfs_create and the permissions of the mount directory.
create_create(p) ==
  /\ At(p, "create", "checked")
  /\ LET c == zfs_create(datasets, get_dataset_path(conc.procs[p].dst), FALSE)
     IN /\ datasets' = c.ds
        /\ ConcStep(Finish([conc EXCEPT !.procs[p].made = c.ok], p, c.ok))
  /\ UNCHANGED <<impl, zfs_handle_, slotData, backup, last, nops, codec,
                 scen>>

\* delete_state without force: the state_exists check,
delete_exists(p) ==
  /\ At(p, "delete", "start")
  /\ ConcStep(IF call_state_exists(World, conc.procs[p].state)
              THEN [conc EXCEPT !.procs[p].pc = "exists"]
              ELSE Finish(conc, p, FALSE))
  /\ UNCHANGED <<impl, zfs_handle_, datasets, slotData, backup, last, nops,
                 codec, scen>>

\* the in-use check over the assignments as read at that moment,
delete_in_use(p) ==
  /\ At(p, "delete", "exists")
  /\ LET r == call_read_registry(conc)
         user == IF impl = ZFSStateProvider
                 THEN ZFS_is_state_in_use([exists |-> TRUE, map |-> r.map],
                                          conc.procs[p].state)
                 ELSE Local_in_use_scan(r.map, 1, conc.procs[p].state)
     IN ConcStep(IF ~r.ok \/ user # NoSlot THEN Finish(conc, p, FALSE)
                 ELSE [conc EXCEPT !.procs[p].loaded = r.map,
                                   !.procs[p].pc = "unused"])
  /\ UNCHANGED <<impl, zfs_handle_, datasets, slotData, backup, last, nops,
                 codec, scen>>

\* then the destroy: LocalZfsBackend destroys the state's snapshots first.
delete_destroy(p) ==
  /\ At(p, "delete", "unused")
  /\ LET path == get_dataset_path(conc.procs[p].state)
         ds1 == IF impl = ZFSStateProvider \/ path \notin DOMAIN datasets
                THEN datasets
                ELSE Local_destroy_snapshots(
                       datasets, path, zfs_iter_snapshots(datasets, path),
                       FALSE)
         d == zfs_destroy_filesystem(ds1, path, impl = ZFSStateProvider,
                                     FALSE)
     IN /\ datasets' = d.ds
        /\ ConcStep(Finish(conc, p, d.ok))
  /\ UNCHANGED <<impl, zfs_handle_, slotData, backup, last, nops, codec,
                 scen>>

\* restore_snapshot: the search for the snapshot and the check of the new
\* state's name,
restore_check(p) ==
  /\ At(p, "restore", "start")
  /\ LET matches == call_find_snapshot(World, conc.procs[p].snap)
     IN \E found \in (IF matches = {} THEN {{}} ELSE {{m} : m \in matches}) :
          ConcStep(IF found = {}
                      \/ call_state_exists(World, conc.procs[p].dst)
                   THEN Finish(conc, p, FALSE)
                   ELSE [conc EXCEPT
                           !.procs[p].state =
                             (CHOOSE m \in found : TRUE).state_name,
                           !.procs[p].pc = "found"])
  /\ UNCHANGED <<impl, zfs_handle_, datasets, slotData, backup, last, nops,
                 codec, scen>>

\* zfs_clone of the snapshot found,
restore_clone(p) ==
  /\ At(p, "restore", "found")
  /\ LET c == zfs_clone(datasets, get_dataset_path(conc.procs[p].state),
                        conc.procs[p].snap,
                        get_dataset_path(conc.procs[p].dst), FALSE)
     IN /\ datasets' = c.ds
        /\ ConcStep(IF c.ok THEN [conc EXCEPT !.procs[p].pc = "cloned",
                                              !.procs[p].made = TRUE]
                    ELSE Finish(conc, p, FALSE))
  /\ UNCHANGED <<impl, zfs_handle_, slotData, backup, last, nops, codec,
                 scen>>

\* and zfs_promote, whose result LocalZfsBackend does not look at.
restore_promote(p) ==
  /\ At(p, "restore", "cloned")
  /\ LET q == zfs_promote(datasets, get_dataset_path(conc.procs[p].dst),
                          FALSE)
     IN /\ datasets' = q.ds
        /\ ConcStep(Finish(conc, p, q.ok \/ impl = LocalZfsBackend))
  /\ UNCHANGED <<impl, zfs_handle_, slotData, backup, last, nops, codec,
                 scen>>

\* The pool the invocations start on: the states dev, with the snapshot
\* before, and test.
InitialDatasets ==
  zfs_create(
    zfs_snapshot(
      zfs_create(EmptyDatasets, get_dataset_path(<<"dev">>), FALSE).ds,
      get_dataset_path(<<"dev">>), <<"before">>, FALSE).ds,
    get_dataset_path(<<"test">>), FALSE).ds

InitConcurrent ==
  /\ impl \in {ZFSStateProvider, LocalZfsBackend}
  /\ zfs_handle_ = TRUE
  /\ datasets = InitialDatasets
  /\ registry = [exists |-> TRUE, map |-> InitialMap]
  /\ slotData = [s \in Range(slots_) |->
                   IF s = "slot1" THEN Symlink(<<"dev">>) ELSE NoEntry]
  /\ backup = [s \in Range(slots_) |-> NoEntry]
  /\ last = [op |-> "init", ok |-> TRUE, err |-> "None"]
  /\ nops = 0
  /\ codec = NoCodec
  /\ scen = NoScen
  /\ conc \in {[reg |-> 1, tmp |-> 0,
                inodes |-> <<[map |-> InitialMap, full |-> TRUE]>>,
                procs |-> ps,
                saved |-> {InitialMap}] :
                 ps \in {f \in [Procs -> UNION {ProcChoices(p) : p \in Procs}] :
                           \A p \in Procs : f[p] \in ProcChoices(p)}}

NextConcurrent ==
  \E p \in Procs :
    \/ assign_check(p)
    \/ assign_create(p)
    \/ assign_load(p)
    \/ assign_open(p)
    \/ assign_close(p)
    \/ assign_rename(p)
    \/ assign_symlink(p)
    \/ clone_check(p)
    \/ clone_snapshot(p)
    \/ clone_clone(p)
    \/ clone_promote(p)
    \/ list_assignments(p)
    \/ list_states(p)
    \/ list_snapshots(p)
    \/ create_check(p)
    \/ create_create(p)
    \/ delete_exists(p)
    \/ delete_in_use(p)
    \/ delete_destroy(p)
    \/ restore_check(p)
    \/ restore_clone(p)
    \/ restore_promote(p)

SpecConcurrent == InitConcurrent /\ [][NextConcurrent]_vars

(***************************************************************************)
(* C21: every invocation exits 0 exactly when the requested operation      *)
(* succeeded, and 1 on invalid usage, an unknown command, a failed         *)
(* privilege check or any failure of the underlying state or VM operation. *)
(* For every invocation from the current world: the exit code is 0 or 1;   *)
(* too few arguments, an unknown command word and a user other than root   *)
(* give 1 (help asks for no privilege); and an exit code of 0 means that   *)
(* no step failed, so the run left the world that the same invocation      *)
(* leaves when the environment refuses nothing.                            *)
(***************************************************************************)
WithoutFaults(inv) == [inv EXCEPT !.fault = "none", !.vmfail = "none"]

NeededArgs(cmd) ==
  IF cmd \in {"create", "delete", "start", "stop", "restart"} THEN 1
  ELSE IF cmd \in {"snapshot", "assign", "clone", "migrate", "restore"} THEN 2
  ELSE 0

KnownCommands ==
  IF impl = ZFSStateProvider
  THEN Commands \ {"frobnicate", "start", "stop", "restart"}
  ELSE Commands \ {"frobnicate"}

C21_ExitCodeReflectsOutcome ==
  \A inv \in Invocations :
    LET r == call_main(World, inv)
        clean == call_main(World, WithoutFaults(inv))
    IN /\ r.exit \in {0, 1}
       /\ (inv.cmd \notin KnownCommands) => r.exit = 1
       /\ (inv.cmd # "help" /\ ~inv.root) => r.exit = 1
       /\ (inv.cmd \in KnownCommands /\ inv.nargs < NeededArgs(inv.cmd))
             => r.exit = 1
       /\ r.exit = 0 => (clean.exit = 0 /\ r.w = clean.w)

(***************************************************************************)
(* C22: the delete command never calls delete_state unless the operator    *)
(* typed exactly DELETE at the prompt; with any other answer the command   *)
(* exits 1 and the state and its snapshots are unchanged.                  *)
(* For every delete invocation from the current world: a run that called   *)
(* delete_state had the answer DELETE, and a run with another answer made  *)
(* no provider call, exited 1 and left the world as it was.                *)
(***************************************************************************)
C22_DeleteNeedsConfirmation ==
  \A inv \in Invocations :
    inv.cmd = "delete" =>
      LET r == call_main(World, inv)
      IN /\ "delete_state" \in Range(r.calls) => inv.confirm = "DELETE"
         /\ inv.confirm # "DELETE" =>
              /\ r.exit = 1
              /\ r.calls = <<>>
              /\ r.w = World

\* A state with a snapshot that the command would delete is kept when the
\* answer is DELETE followed by a space.
C22_AbortedDeleteSeen ==
  \E n \in StateNames :
    LET inv == [BaseInv EXCEPT !.cmd = "delete", !.nargs = 1, !.state = n]
        yes == call_main(World, inv)
        no == call_main(World, [inv EXCEPT !.confirm = "DELETE "])
    IN /\ call_state_exists(World, n)
       /\ datasets[get_dataset_path(n)].snaps # <<>>
       /\ yes.exit = 0
       /\ "delete_state" \in Range(yes.calls)
       /\ ~call_state_exists(yes.w, n)
       /\ no.exit = 1
       /\ no.w = World

(***************************************************************************)
(* C24: migrate(state, slot) performs, in this order: stop the slot's VM   *)
(* (only if it is running), a fixed grace wait, assign_state, start the    *)
(* VM.  If the stop fails neither assign nor start is attempted; if the    *)
(* assignment fails the VM is not started.                                 *)
(* For every migrate invocation that gets past the privilege, usage and    *)
(* slot checks: the calls issued are a prefix of stop, sleep, assign_state,*)
(* start when the unit is active and of assign_state, start when it is     *)
(* not; a refused stop ends the run after stop with the world untouched; a *)
(* failed assignment ends it after assign_state; exit code 0 comes only    *)
(* with the whole sequence.                                                *)
(***************************************************************************)
IsPrefix(s, t) == Len(s) <= Len(t) /\ s = SubSeq(t, 1, Len(s))

MigrateSequence(active) ==
  IF active THEN <<"stop", "sleep", "assign_state", "start">>
  ELSE <<"assign_state", "start">>

MigrateInvs ==
  {inv \in Invocations :
     /\ inv.cmd = "migrate" /\ inv.root /\ inv.nargs = 2
     /\ (impl = LocalZfsBackend => slot_from_string(inv.slot) # <<>>)}

C24_MigrateOrder ==
  \A inv \in MigrateInvs :
    LET r == call_main(World, inv)
        active == inv.running /\ inv.slot \in Range(slots_)
        a == call_assign_state(World, inv.slot, inv.state, inv.fault)
    IN /\ r.calls # <<>>
       /\ IsPrefix(r.calls, MigrateSequence(active))
       /\ (active /\ inv.vmfail = "stop") =>
            (r.calls = <<"stop">> /\ r.exit = 1 /\ r.w = World)
       /\ ~(active /\ inv.vmfail = "stop") =>
            /\ "assign_state" \in Range(r.calls)
            /\ r.w = a.w
            /\ ~a.ok => ("start" \notin Range(r.calls) /\ r.exit = 1)
            /\ a.ok => "start" \in Range(r.calls)
       /\ r.exit = 0 <=>
            (r.calls = MigrateSequence(active) /\ a.ok
             /\ inv.vmfail # "start")

\* A running slot bound to another state is migrated in full, and the same migration stops after
\* the stop when systemd refuses it and after the assignment when that
\* fails.
C24_MigrationsSeen ==
  \E n \in StateNames :
    LET inv == [BaseInv EXCEPT !.cmd = "migrate", !.state = n,
                               !.slot = "slot2", !.running = TRUE]
    IN /\ registry.exists
       /\ "slot2" \in DOMAIN registry.map
       /\ call_get_slot_state(registry, "slot2") # n
       /\ call_main(World, inv).exit = 0
       /\ call_main(World, inv).calls
            = <<"stop", "sleep", "assign_state", "start">>
       /\ call_get_slot_state(call_main(World, inv).w.reg, "slot2") = n
       /\ call_main(World, [inv EXCEPT !.vmfail = "stop"]).calls = <<"stop">>
       /\ call_main(World, [inv EXCEPT !.fault = "symlink"]).calls
            = <<"stop", "sleep", "assign_state">>

(***************************************************************************)
(* C23: every state-provider operation that returns failure has set the    *)
(* last-error message during that same call; the message read after a      *)
(* failure is never a stale one from an earlier call.                      *)
(* A result's err of None stands for a call that assigned nothing to       *)
(* last_error_.  For every operation of ZFSStateProvider, every argument   *)
(* and every injected failure from the current world: a call that returns  *)
(* false has assigned last_error_, so whatever an earlier call left there, *)
(* get_last_error gives the message of this call.                          *)
(***************************************************************************)
ErrorClasses ==
  {"None", "AlreadyExists", "NotFound", "InUse", "InvalidSlot",
   "PermissionDenied", "BackendFailure"}

ProviderCalls(w) ==
  {ZFS_create_state(w, n, f) : n \in StateNames, f \in CreateFaults}
  \cup {ZFS_delete_state(w, n, force, f) :
          n \in StateNames, force \in BOOLEAN, f \in {"none", "zfs_destroy"}}
  \cup {ZFS_clone_state(w, a, b, f) :
          a \in StateNames, b \in StateNames, f \in CloneFaults}
  \cup {ZFS_create_snapshot(w, n, sn, f) :
          n \in StateNames, sn \in SnapNames, f \in {"none", "zfs_snapshot"}}
  \cup {ZFS_delete_snapshot(w, n, sn, f) :
          n \in StateNames, sn \in SnapNames, f \in {"none", "zfs_destroy"}}
  \cup {ZFS_restore_snapshot(w, FirstListed(ZFS_find_snapshot(w, sn), a), n,
                             f) :
          sn \in SnapNames, a \in StateNames, n \in StateNames,
          f \in RestoreFaults}
  \cup {ZFS_assign_state(w, s, n, f) :
          s \in SlotArgs, n \in StateNames, f \in AssignFaults}

C23_FailureSetsLastError ==
  impl = ZFSStateProvider =>
    \A r \in ProviderCalls(World) :
      /\ ~r.ok => r.err # "None"
      /\ \A before \in ErrorClasses :
           ~r.ok => get_last_error(before, r) = r.err

\* A failed create_state leaves AlreadyExists; the delete_state of a missing
\* state that follows fails and leaves its own message, and a failed
\* assign_state leaves the message of the step that failed in it.
C23_SecondFailureSeen ==
  /\ impl = ZFSStateProvider
  /\ \E n \in StateNames, m \in StateNames :
       LET r1 == ZFS_create_state(World, n, "none")
           r2 == ZFS_delete_state(r1.w, m, FALSE, "none")
           r3 == ZFS_assign_state(r2.w, "slot2", n, "save")
       IN /\ ~r1.ok /\ r1.err = "AlreadyExists"
          /\ ~r2.ok
          /\ get_last_error(get_last_error("None", r1), r2) = "NotFound"
          /\ ~r3.ok
          /\ get_last_error("NotFound", r3) = "BackendFailure"

(***************************************************************************)
(* C25: in clone_state and restore_snapshot a failure of any single        *)
(* underlying step (snapshot, clone, promote, permissions) aborts the      *)
(* operation and is reported; the operation never reports success when the *)
(* promote step failed.                                                    *)
(* For every clone_state and restore_snapshot from the current world that  *)
(* succeeds when the environment refuses nothing: the same call with the   *)
(* snapshot, clone or promote step failing reports failure.                *)
(***************************************************************************)
StepFaults == {"zfs_snapshot", "zfs_clone", "zfs_promote"}

C25_StepFailureReported ==
  /\ \A a \in StateNames, b \in StateNames, f \in StepFaults :
       call_clone_state(World, a, b, "none").ok
         => ~call_clone_state(World, a, b, f).ok
  /\ \A sn \in SnapNames, n \in StateNames,
        f \in StepFaults \ {"zfs_snapshot"} :
       \A m \in call_find_snapshot(World, sn) :
         call_restore_snapshot(World, {m}, n, "none").ok
           => ~call_restore_snapshot(World, {m}, n, f).ok

(***************************************************************************)
(* C26: there is no rollback on partial failure.  If clone_state(A, B)     *)
(* fails at the clone step the snapshot A@clone-for-B remains; if it fails *)
(* at the promote step the dataset B remains as a dependent clone, so      *)
(* state_exists(B) is true and a retry of clone_state(A, B) fails with     *)
(* AlreadyExists.                                                          *)
(* For every clone_state(A, B) from the current world that succeeds when   *)
(* the environment refuses nothing: with the clone step failing the call   *)
(* fails, A has the snapshot clone-for-B and B does not exist; with the    *)
(* promote step failing B exists with A@clone-for-B as its origin, the     *)
(* snapshot is still A's, and the same call made again is refused with     *)
(* AlreadyExists.  ZFSStateProvider reports the failed promote.            *)
(***************************************************************************)
C26_NoRollback ==
  \A a \in StateNames, b \in StateNames :
    call_clone_state(World, a, b, "none").ok =>
      LET A == get_dataset_path(a)
          B == get_dataset_path(b)
          rc == call_clone_state(World, a, b, "zfs_clone")
          rp == call_clone_state(World, a, b, "zfs_promote")
          again == call_clone_state(rp.w, a, b, "none")
      IN /\ ~rc.ok
         /\ CloneSnapName(b) \in Range(rc.w.ds[A].snaps)
         /\ ~call_state_exists(rc.w, b)
         /\ impl = ZFSStateProvider => ~rp.ok
         /\ B \in DOMAIN rp.w.ds
         /\ rp.w.ds[B].origin = <<A, CloneSnapName(b)>>
         /\ CloneSnapName(b) \in Range(rp.w.ds[A].snaps)
         /\ call_state_exists(rp.w, b)
         /\ ~again.ok
         /\ again.err = "AlreadyExists"
         /\ again.w = rp.w

\* A clone of a state that has a snapshot of its own fails at the promote
\* step and is tried again.
C26_FailedPromoteSeen ==
  /\ impl = ZFSStateProvider
  /\ \E a \in StateNames, b \in StateNames :
       LET rp == call_clone_state(World, a, b, "zfs_promote")
       IN /\ call_state_exists(World, a)
          /\ datasets[get_dataset_path(a)].snaps # <<>>
          /\ ~call_state_exists(World, b)
          /\ ~rp.ok
          /\ call_state_exists(rp.w, b)
          /\ call_clone_state(rp.w, a, b, "none").err = "AlreadyExists"

(***************************************************************************)
(* C30: in LocalZfsBackend::delete_state a failure to destroy one snapshot *)
(* does not stop the loop; the operation fails only if destroying the      *)
(* dataset itself fails, in which case the state still exists with the     *)
(* snapshots that were destroyed before gone.                              *)
(* The worlds looked at are the current one and those two more calls lead  *)
(* to (a snapshot through a slot, then the slot bound back to its own      *)
(* state), so that a state free to delete has a snapshot a clone depends   *)
(* on followed by one that can go.  For every delete_state that gets past  *)
(* the existence and in-use checks: each listed snapshot without a         *)
(* dependent clone is gone afterwards, whether it comes before or after    *)
(* one that cannot be destroyed; the call succeeds exactly when the        *)
(* dataset could then be destroyed; when it fails the state still exists   *)
(* and has only the snapshots that could not be destroyed.                 *)
(***************************************************************************)
C30_Worlds ==
  {World}
  \cup {Local_assign(Local_snapshot(World, s, sn, "none").w, s,
                     AsStateName(s), "none").w :
          s \in {"slot1", "slot2"}, sn \in UserSnapNames}

C30_DeleteGoesOn ==
  impl = LocalZfsBackend =>
    \A W \in C30_Worlds, n \in {m \in StateNames : Len(m) = 1},
       f \in {"none", "zfs_destroy"} :
      LET r == Local_delete_state(W, n, f)
          P == get_dataset_path(n)
          stuck == SelectSeq(W.ds[P].snaps,
                             LAMBDA s : HasClones(W.ds, P, s))
      IN (Local_state_exists(W, n) /\ r.err \notin {"NotFound", "InUse"}) =>
           /\ r.ok <=> (f = "none" /\ stuck = <<>> /\ ~HasChildren(W.ds, P))
           /\ r.ok => P \notin DOMAIN r.w.ds
           /\ ~r.ok =>
                /\ Local_state_exists(r.w, n)
                /\ r.w.ds[P].snaps = stuck
                /\ r.err = "BackendFailure"

\* A state whose first snapshot has a dependent clone and whose second has
\* none: the delete fails, the state is still there, the second snapshot is
\* gone.
C30_LoopWentOnSeen ==
  /\ impl = LocalZfsBackend
  /\ \E W \in C30_Worlds, n \in StateNames :
       LET P == get_dataset_path(n)
           r == Local_delete_state(W, n, "none")
       IN /\ Local_state_exists(W, n)
          /\ Len(W.ds[P].snaps) = 2
          /\ HasClones(W.ds, P, W.ds[P].snaps[1])
          /\ ~HasClones(W.ds, P, W.ds[P].snaps[2])
          /\ ~r.ok
          /\ r.err = "BackendFailure"
          /\ r.w.ds[P].snaps = <<W.ds[P].snaps[1]>>

(***************************************************************************)
(* C27: under any interleaving of concurrent invocations that write and    *)
(* read the assignment registry, a reader never observes a half-written    *)
(* registry file: every read returns either the complete mapping written   *)
(* by some save_assignments call or the mapping before it.                 *)
(* At every moment of every interleaving, a load_assignments made now      *)
(* parses the file and returns the initial mapping or a mapping some       *)
(* save_assignments was called with.                                       *)
(***************************************************************************)
C27_NeverHalfWritten ==
  /\ call_read_registry(conc).ok
  /\ call_read_registry(conc).map \in conc.saved

(***************************************************************************)
(* C28: lost update is reachable: two concurrent assign_state invocations  *)
(* on two different slots can interleave their load-modify-save of the     *)
(* registry so that both report success while the final registry contains  *)
(* the new assignment of only one of them.                                 *)
(* Whenever two invocations on different slots have both reported success  *)
(* and each had loaded the registry before the other's binding was in it,  *)
(* the registry does not hold both new bindings: nothing merges the two    *)
(* updates.  C28_LostUpdateSeen is the state the claim says can be reached.*)
(***************************************************************************)
HasBinding(m, p) ==
  /\ conc.procs[p].slot \in DOMAIN m
  /\ m[conc.procs[p].slot] = conc.procs[p].state

Succeeded(p) ==
  /\ conc.procs[p].op = "assign"
  /\ conc.procs[p].pc = "done"
  /\ conc.procs[p].ok

Overlapped(p, q) ==
  /\ p # q
  /\ conc.procs[p].slot # conc.procs[q].slot
  /\ Succeeded(p) /\ Succeeded(q)
  /\ ~HasBinding(conc.procs[p].loaded, q)
  /\ ~HasBinding(conc.procs[q].loaded, p)

C28_UpdatesNotMerged ==
  \A p \in Procs, q \in Procs :
    Overlapped(p, q) =>
      ~(HasBinding(call_read_registry(conc).map, p)
        /\ HasBinding(call_read_registry(conc).map, q))

\* Every invocation has ended, two of them reported success, and the
\* registry holds the binding of one and not of the other.
C28_LostUpdateSeen ==
  /\ \A r \in Procs : conc.procs[r].pc = "done"
  /\ \E p \in Procs, q \in Procs :
       /\ Overlapped(p, q)
       /\ call_read_registry(conc).ok
       /\ HasBinding(call_read_registry(conc).map, q)
       /\ ~HasBinding(call_read_registry(conc).map, p)
       /\ call_get_slot_state(registry, conc.procs[p].slot)
            # conc.procs[p].state

(***************************************************************************)
(* C29: clone_state is not atomic towards other invocations: while         *)
(* clone_state(A, B) runs, a concurrent invocation can observe the         *)
(* intermediate state in which the snapshot A@clone-for-B is listed but    *)
(* state B does not yet exist, and the state in which B exists but is not  *)
(* yet promoted.                                                           *)
(* Between the steps of a running clone_state(A, B) the namespace is in    *)
(* those two states: after its snapshot step list_snapshots gives          *)
(* A@clone-for-B while state_exists(B) is false; after its clone step B is *)
(* listed as a state and still has A@clone-for-B as its origin (for a      *)
(* clone_state that is the only invocation making B at that time).         *)
(* C29_IntermediateSeen is a moment at which a list command running beside *)
(* the clone has returned the first of the two and the second is there to  *)
(* be seen.                                                                *)
(***************************************************************************)
CloneSnapshotListed(p) ==
  \E s \in call_list_snapshots(World) :
    /\ s.state_name = conc.procs[p].state
    /\ s.name = CloneSnapName(conc.procs[p].dst)

\* No other invocation makes the state this one makes.
OnlyCloneOfDest(p) ==
  \A q \in Procs \ {p} :
    /\ conc.procs[q].dst # conc.procs[p].dst
    /\ conc.procs[q].op = "assign" =>
         conc.procs[q].state # conc.procs[p].dst

C29_CloneStepsVisible ==
  \A p \in {q \in Procs : OnlyCloneOfDest(q)} :
    /\ At(p, "clone", "snapshotted") =>
         /\ CloneSnapshotListed(p)
         /\ ~call_state_exists(World, conc.procs[p].dst)
    /\ At(p, "clone", "cloned") =>
         /\ call_state_exists(World, conc.procs[p].dst)
         /\ conc.procs[p].dst \in {s.name : s \in call_list_states(World)}
         /\ datasets[get_dataset_path(conc.procs[p].dst)].origin
              = <<get_dataset_path(conc.procs[p].state),
                  CloneSnapName(conc.procs[p].dst)>>
         /\ CloneSnapshotListed(p)

C29_IntermediateSeen ==
  \E p \in Procs, q \in Procs :
    /\ At(p, "clone", "cloned")
    /\ At(q, "list", "done")
    /\ conc.procs[p].dst \notin conc.procs[q].states
    /\ <<conc.procs[p].state, CloneSnapName(conc.procs[p].dst)>>
         \in conc.procs[q].snaps
    /\ call_state_exists(World, conc.procs[p].dst)
    /\ datasets[get_dataset_path(conc.procs[p].dst)].origin # NoOrigin

(***************************************************************************)
(* C31: the two provider implementations implement the same contract: run  *)
(* side by side from the same backend and registry on the same calls with  *)
(* the same backend step outcomes, they report the same success or failure *)
(* for every call and leave the same states, snapshots and assignments.    *)
(* Stated on every state either implementation reaches with libzfs         *)
(* initialised: each create, unforced delete, clone, snapshot, restore and *)
(* assign call, with each outcome of its backend steps, gets the same      *)
(* report from ZFSStateProvider and from LocalZfsBackend and leaves the    *)
(* same world.                                                             *)
(***************************************************************************)
SameOutcome(a, b) == a.ok = b.ok /\ a.w = b.w

SameMatches(sn) ==
  ZFS_find_snapshot(World, sn)
    = {s \in Local_list_snapshots(World) : s.name = sn}

C31_SameContract ==
  zfs_handle_ =>
    /\ \A n \in StateNames, f \in CreateFaults :
         SameOutcome(ZFS_create_state(World, n, f),
                     Local_create_state(World, n, f))
    /\ \A n \in StateNames, f \in {"none", "zfs_destroy"} :
         SameOutcome(ZFS_delete_state(World, n, FALSE, f),
                     Local_delete_state(World, n, f))
    /\ \A a \in StateNames, b \in StateNames, f \in CloneFaults :
         SameOutcome(ZFS_clone_state(World, a, b, f),
                     Local_clone_state(World, a, b, f))
    /\ \A s \in Range(slots_), sn \in SnapNames,
          f \in {"none", "zfs_snapshot"} :
         SameOutcome(ZFS_create_snapshot(
                       World, ZFS_get_slot_state(World.reg, s), sn, f),
                     Local_snapshot(World, s, sn, f))
    /\ \A sn \in SnapNames, n \in StateNames, f \in RestoreFaults :
         SameMatches(sn) =>
           \A found \in {{}} \cup {{m} : m \in ZFS_find_snapshot(World, sn)} :
             (found = {} => ZFS_find_snapshot(World, sn) = {}) =>
               SameOutcome(ZFS_restore_snapshot(World, found, n, f),
                           Local_restore_snapshot(World, found, n, f))
    /\ \A s \in SlotArgs, n \in StateNames, f \in AssignFaults :
         SameOutcome(ZFS_assign_state(World, s, n, f),
                     Local_cmd_assign(World, s, n, f))

(***************************************************************************)
(* C32: frame of the registry.  create_state, delete_state (forced or      *)
(* not), clone_state, create_snapshot, delete_snapshot and                 *)
(* restore_snapshot never change the assignment registry, whatever they    *)
(* report, and a successful assign_state(s, S) changes only the entry of   *)
(* slot s: every other slot has the entry it had, or still has none.       *)
(***************************************************************************)
OthersKept(before, after, slot_name) ==
  \A t \in Range(slots_) \ {slot_name} :
    /\ t \in DOMAIN after.map <=> t \in DOMAIN before.map
    /\ t \in DOMAIN before.map => after.map[t] = before.map[t]

C32_RegistryFrame ==
  /\ \A n \in StateNames, f \in CreateFaults :
       call_create_state(World, n, f).w.reg = registry
  /\ \A n \in StateNames, force \in BOOLEAN, f \in DeleteFaults :
       call_delete_state(World, n, force, f).w.reg = registry
  /\ \A a \in StateNames, b \in StateNames, f \in CloneFaults :
       call_clone_state(World, a, b, f).w.reg = registry
  /\ \A n \in StateNames, sn \in SnapNames, f \in {"none", "zfs_snapshot"} :
       ZFS_create_snapshot(World, n, sn, f).w.reg = registry
  /\ \A n \in StateNames, sn \in SnapNames, f \in {"none", "zfs_destroy"} :
       ZFS_delete_snapshot(World, n, sn, f).w.reg = registry
  /\ \A s \in SlotArgs, sn \in SnapNames, f \in {"none", "zfs_snapshot"} :
       Local_cmd_snapshot(World, s, sn, f).w.reg = registry
  /\ \A sn \in SnapNames, n \in StateNames, f \in RestoreFaults :
       \A found \in {{}} \cup {{m} : m \in call_find_snapshot(World, sn)} :
         call_restore_snapshot(World, found, n, f).w.reg = registry
  /\ \A s \in SlotArgs, n \in StateNames, f \in AssignFaults :
       LET r == call_assign_state(World, s, n, f)
       IN r.ok => OthersKept(registry, r.w.reg, s)

\* A slot is rebound while another slot has an entry, and a state is deleted.
C32_AssignBesideOtherEntry ==
  \E s \in SlotArgs, t \in Range(slots_), n \in StateNames :
    LET r == call_assign_state(World, s, n, "none")
    IN /\ s # t
       /\ t \in DOMAIN registry.map
       /\ r.ok
       /\ r.w.reg # registry
       /\ r.w.reg.map[s] = n
       /\ r.w.reg.map[t] = registry.map[t]
       /\ \E d \in StateNames : call_delete_state(World, d, FALSE, "none").ok

(***************************************************************************)
(* Sequential use without force: the calls of Spec, with every             *)
(* delete_state unforced.                                                  *)
(***************************************************************************)
NextNoForce ==
  \/ \E n \in StateNames, f \in CreateFaults : create_state(n, f)
  \/ \E n \in StateNames, f \in DeleteFaults : delete_state(n, FALSE, f)
  \/ \E a \in StateNames, b \in StateNames, f \in CloneFaults :
       clone_state(a, b, f)
  \/ \E n \in StateNames, sn \in SnapNames, f \in {"none", "zfs_snapshot"} :
       create_snapshot(n, sn, f)
  \/ \E n \in StateNames, sn \in SnapNames, f \in {"none", "zfs_destroy"} :
       delete_snapshot(n, sn, f)
  \/ \E s \in SlotArgs, sn \in SnapNames, f \in {"none", "zfs_snapshot"} :
       snapshot(s, sn, f)
  \/ \E sn \in SnapNames, n \in StateNames, f \in RestoreFaults :
       restore_snapshot(sn, n, f)
  \/ \E s \in SlotArgs, n \in StateNames, f \in AssignFaults :
       assign_state(s, n, f)
  \/ \E s \in SlotArgs \cap Range(slots_) : PutRegularFile(s)

SpecNoForce == Init /\ [][NextNoForce]_vars

(***************************************************************************)
(* C33: after any sequence of create_state, clone_state, restore_snapshot, *)
(* snapshot operations, assign_state and unforced delete_state calls,      *)
(* successful or failed, starting from an empty registry, every state name *)
(* stored in an explicit registry entry names a state that exists.         *)
(***************************************************************************)
C33_EntriesNameStates ==
  \A t \in DOMAIN registry.map :
    call_state_exists(World, registry.map[t])

\* A state with an explicit entry, whose unforced deletion is refused, and
\* beside it a state without one, whose deletion succeeds.
C33_DeleteRefusedForEntry ==
  \E t \in DOMAIN registry.map, d \in StateNames :
    /\ call_state_exists(World, registry.map[t])
    /\ ~call_delete_state(World, registry.map[t], FALSE, "none").ok
    /\ call_delete_state(World, registry.map[t], FALSE, "none").err = "InUse"
    /\ call_delete_state(World, d, FALSE, "none").ok

(***************************************************************************)
(* C34: under any interleaving of an unforced delete_state(S) with a       *)
(* concurrent assign_state(s, S), the dataset of S is never destroyed      *)
(* while the registry maps a slot to S: there is no reachable state in     *)
(* which both invocations reported success, get_slot_state(s) = S and      *)
(* state_exists(S) is false.                                               *)
(***************************************************************************)
C34_NoAssignedStateDestroyed ==
  \A p \in Procs, q \in Procs :
    ~ /\ At(p, "delete", "done") /\ conc.procs[p].ok
      /\ At(q, "assign", "done") /\ conc.procs[q].ok
      /\ conc.procs[q].state = conc.procs[p].state
      /\ call_get_slot_state(registry, conc.procs[q].slot)
           = conc.procs[p].state
      /\ ~call_state_exists(World, conc.procs[p].state)

(***************************************************************************)
(* C35: under any interleaving of two concurrent invocations that create   *)
(* the same state name (create_state(n), clone_state(_, n),                *)
(* restore_snapshot(_, n), or assign_state implicitly creating n), at most *)
(* one of them creates the dataset n; an assign_state that loses this race *)
(* reports failure even though n exists afterwards.                        *)
(* An assign_state has lost when it found n missing and did not make n     *)
(* itself: it is then either still before its create_state, which will     *)
(* fail once n exists, or it has ended with failure, and n exists.         *)
(***************************************************************************)
Makes(p) ==
  IF conc.procs[p].op = "assign" THEN conc.procs[p].state
  ELSE conc.procs[p].dst

C35_OneCreator ==
  /\ \A p \in Procs, q \in Procs :
       p # q /\ Makes(p) = Makes(q) =>
         ~(conc.procs[p].made /\ conc.procs[q].made)
  /\ \A p \in {q \in Procs : /\ conc.procs[q].op = "assign"
                              /\ conc.procs[q].missing
                              /\ ~conc.procs[q].made} :
       \/ /\ At(p, "assign", "missing")
          /\ (call_state_exists(World, conc.procs[p].state) =>
                ~call_create_state(World, conc.procs[p].state, "none").ok)
       \/ /\ At(p, "assign", "done")
          /\ ~conc.procs[p].ok
          /\ call_state_exists(World, conc.procs[p].state)

\* Two assignments that both found the state missing have ended: one made
\* it and succeeded, the other failed.
C35_RaceLost ==
  \E p \in Procs, q \in Procs :
       /\ p # q
       /\ At(p, "assign", "done") /\ At(q, "assign", "done")
       /\ conc.procs[p].state = conc.procs[q].state
       /\ conc.procs[p].missing /\ conc.procs[q].missing
       /\ conc.procs[p].made /\ conc.procs[p].ok
       /\ ~conc.procs[q].made /\ ~conc.procs[q].ok
       /\ call_state_exists(World, conc.procs[q].state)

(***************************************************************************)
(* C36: clone_state is repeatable for a destination name: after            *)
(* clone_state(A, B) succeeded and B was later deleted, a second           *)
(* clone_state(A, B) with A existing and B absent succeeds; the            *)
(* clone-for-B snapshot left by the first clone never makes a later clone  *)
(* to the same destination name fail.                                      *)
(* Stated from every reachable state: when a clone_state(A, B) reports     *)
(* success, under any outcome of its backend steps, and a delete_state(B)  *)
(* after it succeeds, then with A still there and no step failing the      *)
(* second clone_state(A, B) succeeds.                                      *)
(***************************************************************************)
C36_CloneRepeatable ==
  \A a \in StateNames, b \in StateNames, f \in CloneFaults,
     force \in BOOLEAN :
    LET first == call_clone_state(World, a, b, f)
        deleted == call_delete_state(first.w, b, force, "none")
    IN first.ok /\ deleted.ok /\ call_state_exists(deleted.w, a)
       /\ ~call_state_exists(deleted.w, b) =>
         call_clone_state(deleted.w, a, b, "none").ok

(***************************************************************************)
(* C37: a failed assign_state(s, S) leaves the assignment of s unchanged:  *)
(* whenever assign_state reports failure (invalid slot, implicit creation  *)
(* failed, registry save failed, or the data-image symlink could not be    *)
(* rebound), get_slot_state(s) returns the same state name as before the   *)
(* call and the slot's data.img entry still exists.                        *)
(***************************************************************************)
C37_FailedAssignChangesNothing ==
  \A s \in SlotArgs, n \in StateNames, f \in AssignFaults :
    LET r == call_assign_state(World, s, n, f)
    IN ~r.ok =>
         /\ call_get_slot_state(r.w.reg, s) = call_get_slot_state(registry, s)
         /\ s \in Range(slots_) /\ slotData[s].kind # "none" =>
              r.w.slotData[s].kind # "none"

(***************************************************************************)
(* The unit of a slot, as systemd reports it.  ActiveState is one of       *)
(* ActiveStates; readable is whether the D-Bus property read succeeds.     *)
(***************************************************************************)
ActiveStates ==
  {"active", "activating", "inactive", "deactivating", "failed", "reloading"}

\* SystemdDBusVMProvider::get_status.
VM_get_status(slot_name, active_state, readable) ==
  IF ~VM_is_valid_slot(slot_name) THEN "Unknown"
  ELSE IF ~readable THEN "Unknown"
  ELSE IF active_state = "active" \/ active_state = "activating"
  THEN "Running"
  ELSE IF active_state = "inactive" \/ active_state = "deactivating"
  THEN "Stopped"
  ELSE IF active_state = "failed" THEN "Failed"
  ELSE "Unknown"

\* LocalZfsBackend::is_slot_running: systemctl is-active exits with 0 for
\* an active unit only.
Local_is_slot_running(active_state) == active_state = "active"

\* What migrate takes for "running".
call_is_running(slot_name, active_state, readable) ==
  IF impl = ZFSStateProvider
  THEN VM_is_running(slot_name,
                     VM_get_status(slot_name, active_state, readable)
                       = "Running")
  ELSE Local_is_slot_running(active_state)

\* Where the stop request and the two seconds of sleep can leave the unit:
\* StopUnit over D-Bus returns when the job is queued, systemctl stop when
\* the job has ended.
AfterStop ==
  IF impl = ZFSStateProvider THEN {"inactive", "deactivating", "failed"}
  ELSE {"inactive", "failed"}

\* The unit's ActiveState at the moment migrate calls assign_state.
UnitStateAtAssign(slot_name, active_state, readable, after) ==
  IF call_is_running(slot_name, active_state, readable) THEN after
  ELSE active_state

(***************************************************************************)
(* C38: during migrate(state, slot) the slot's data image is rebound only  *)
(* while the slot's VM is not running: at the moment assign_state is       *)
(* called, the VM unit of the slot is neither active, activating nor still *)
(* deactivating, for every status the VM Control Adapter can report        *)
(* (including failed and unknown).                                         *)
(***************************************************************************)
C38_AssignOnlyWhenStopped ==
  \A inv \in {i \in MigrateInvs : VM_is_valid_slot(i.slot)},
     st \in ActiveStates, readable \in BOOLEAN :
    \A after \in AfterStop :
      LET r == call_main(World,
                 [inv EXCEPT !.running =
                               call_is_running(inv.slot, st, readable)])
      IN "assign_state" \in Range(r.calls) =>
           UnitStateAtAssign(inv.slot, st, readable, after)
             \notin {"active", "activating", "deactivating"}

(***************************************************************************)
(* C39: the CLI snapshot command with a slot argument that is not one of   *)
(* the fixed slot identifiers fails with exit code 1 and creates no        *)
(* snapshot, in both CLI implementations, even when a state whose name     *)
(* equals that argument exists.                                            *)
(***************************************************************************)
C39_SnapshotOfNonSlotRefused ==
  \A s \in {"slot9", "dev"}, sn \in SnapNames,
     f \in {"none", "zfs_snapshot"} :
    LET r == call_main(World, [BaseInv EXCEPT !.cmd = "snapshot", !.slot = s,
                                              !.snap = sn, !.fault = f])
    IN r.exit = 1 /\ r.w.ds = datasets

(***************************************************************************)
(* The registry step of assign_state on a registry file of any content:    *)
(* the file is read into memory, the slot's entry is put, and the file is  *)
(* rewritten.  The contents tried are what write_json_file writes for two  *)
(* mappings, and those texts cut short, with one character removed, and    *)
(* with one character replaced.                                            *)
(***************************************************************************)
WrittenMaps ==
  {[k \in {SlotChars("slot1")} |-> <<"n">>],
   [k \in {SlotChars("slot1"), SlotChars("slot2")} |->
      IF k = SlotChars("slot1") THEN <<DQ>> ELSE <<"n", "n">>]}

Replacements == Alphabet \cup {":", "x"}

Damaged(text) ==
  {SubSeq(text, 1, k) : k \in 0..Len(text)}
    \cup {SubSeq(text, 1, i - 1) \o SubSeq(text, i + 1, Len(text)) :
            i \in 1..Len(text)}
    \cup {[text EXCEPT ![i] = c] : i \in 1..Len(text), c \in Replacements}

\* The keys the model's std::map iterates are the slot identifiers
\* (SortedKeys), so the contents kept are those whose keys are slots.
RegistryTexts ==
  {text \in UNION {Damaged(to_json_object(m) \o <<"\n">>) : m \in WrittenMaps} :
     DOMAIN parse_json_object(text) \subseteq
       {SlotChars(sl) : sl \in Range(slots_)}}

RegistryFiles ==
  {NoFile} \cup {[exists |-> TRUE, content |-> text] : text \in RegistryTexts}

AssignSlots == {"slot1", "slot2", "slot3"}

AssignStates == {<<"n">>, <<DQ, BS>>}

\* get_slot_state on the registry file: the slot's entry, or the slot's own
\* name when it has none.
file_slot_state(file, slot_name) ==
  LET assignments == load_assignments(file)
  IN IF SlotChars(slot_name) \in DOMAIN assignments
     THEN assignments[SlotChars(slot_name)]
     ELSE SlotChars(slot_name)

InitRegistryFile ==
  /\ impl = ZFSStateProvider
  /\ zfs_handle_ = TRUE
  /\ datasets = EmptyDatasets
  /\ registry = [exists |-> FALSE, map |-> EmptyMap]
  /\ slotData = [s \in Range(slots_) |-> NoEntry]
  /\ backup = [s \in Range(slots_) |-> NoEntry]
  /\ last = [op |-> "init", ok |-> TRUE, err |-> "None"]
  /\ nops = 0
  /\ scen = NoScen
  /\ conc = NoConc
  /\ codec \in {[NoCodec EXCEPT !.pc = "file", !.file = f, !.old = f] :
                  f \in RegistryFiles}

\* assign_state from "Update assignments" to the result of save_assignments.
RegistryAssign(slot_name, state_name, envFail) ==
  /\ codec.pc = "file"
  /\ LET assignments == load_assignments(codec.file)
         sv == save_assignments(
                 codec.file,
                 MapPut(assignments, SlotChars(slot_name), state_name),
                 envFail)
     IN codec' = [codec EXCEPT
                    !.pc = IF sv.ok THEN "assigned" ELSE "assign failed",
                    !.m = assignments,
                    !.slot = slot_name,
                    !.file = sv.file]
  /\ UNCHANGED <<impl, zfs_handle_, datasets, registry, slotData, backup,
                 last, nops, scen, conc>>

NextRegistryFile ==
  \E slot_name \in AssignSlots, state_name \in AssignStates,
     envFail \in BOOLEAN :
    RegistryAssign(slot_name, state_name, envFail)

SpecRegistryFile == InitRegistryFile /\ [][NextRegistryFile]_vars

\* C40: whatever the registry file held, text that is no JSON object
\* included, after a successful assign_state(s, S) get_slot_state(t) answers
\* for every slot t other than s what it answered on the file before the call.
C40_OtherSlotsKept ==
  codec.pc = "assigned" =>
    \A t \in Range(slots_) \ {codec.slot} :
      file_slot_state(codec.file, t) = file_slot_state(codec.old, t)

\* A registry file without its closing brace, holding an entry for another
\* slot, was rewritten by a successful assign and the entry is still read.
C40_DamagedFileRewritten ==
  /\ codec.pc = "assigned"
  /\ codec.old.exists
  /\ "}" \notin Range(codec.old.content)
  /\ codec.old.content # codec.file.content
  /\ \E t \in Range(slots_) \ {codec.slot} :
       /\ SlotChars(t) \in DOMAIN load_assignments(codec.old)
       /\ file_slot_state(codec.file, t) = load_assignments(codec.old)[SlotChars(t)]
  /\ file_slot_state(codec.file, codec.slot) \in AssignStates

====
